---- MODULE Spec2Model ----
(***************************************************************************)
(* Model of the Clash subscription patcher.                                *)
(*   src/patch_clash_subscription.py.py   (the full script,  "full")       *)
(*   src/patch_resi_chain_sanitized.py    (the smaller one,  "sanitized")  *)
(*                                                                         *)
(* A document is the text of the YAML file, a TLA+ string, and the code's  *)
(* text operations (find, splitlines, startswith, strip, slicing, join)    *)
(* are computed character by character on it.  Offsets and line indexes    *)
(* are 0-based as in the Python source; -1 stands for None / not found.    *)
(*                                                                         *)
(* The module is ASCII only, so the names the scripts ship with (emoji and *)
(* CJK text) are written with ASCII stand-ins; the full script reads its   *)
(* names from the environment (RESI_PROXY_NAME, RESI_GROUP_DIALER_NAME,    *)
(* ...), the stand-ins of the sanitized script are transliterations.  The  *)
(* only line terminator of the documents is "\n".                          *)
(***************************************************************************)
EXTENDS Integers, Sequences, FiniteSets, TLC

VARIABLES
    variant,               \* which script runs: "full" or "sanitized"
    cfg,                   \* command line and environment of the invocation
    file,                  \* content of the document file on disk
    backups,               \* contents of the backup files written so far
    pc,                    \* position of the running process
    run,                   \* number of the current invocation
    prior,                 \* how the earlier invocations ended, in order
    disk0,                 \* document and backups as the current invocation found them
    compat,                \* resolved dialect ("" until main resolved it)
    original,              \* patch_file: text read at the start of the run
    text,                  \* patch_file: text computed so far
    changed_any,           \* patch_file: changed_any
    change_notes,          \* patch_file: change_notes
    warn_notes,            \* patch_file: warn_notes
    proxies_start,         \* patch_file: proxies_start
    proxy_groups_start,    \* patch_file: proxy_groups_start
    proxies_section,       \* patch_file: proxies_section
    proxy_groups_section,  \* patch_file: proxy_groups_section
    all_nodes_best,        \* patch_file: member list of the generated group
    ns_before,             \* proxy_groups_section as the node-select step found it
    outcome,               \* what the run returned: "", "nochange", "dryrun", "written"
    msg,                   \* patch_file: the message it returned
    new_text,              \* main: the patched text of the --diff / --changelog preview
    err,                   \* message of the fatal error that ended the run, or ""
    wrote                  \* files written by the current run, in order

vars == <<variant, cfg, file, backups, pc, run, prior, disk0, compat, original, text,
          changed_any, change_notes, warn_notes, proxies_start,
          proxy_groups_start, proxies_section, proxy_groups_section,
          all_nodes_best, ns_before, outcome, msg, new_text, err, wrote>>

(***************************************************************************)
(* Python string and list primitives                                       *)
(***************************************************************************)

\* s[a:b] for 0 <= a
Slice(s, a, b) == SubSeq(s, a + 1, IF b > Len(s) THEN Len(s) ELSE b)

\* s[a:]
SliceFrom(s, a) == SubSeq(s, a + 1, Len(s))

\* p occurs in s at offset k
OccursAt(s, p, k) == k >= 0 /\ k + Len(p) <= Len(s) /\ SubSeq(s, k + 1, k + Len(p)) = p

\* s.find(p, start)
Find(s, p, start) ==
    LET hits == {k \in start..(Len(s) - Len(p)) : OccursAt(s, p, k)}
    IN  IF hits = {} THEN -1 ELSE CHOOSE k \in hits : \A h \in hits : k <= h

\* s.rfind(p)
RFind(s, p) ==
    LET hits == {k \in 0..(Len(s) - Len(p)) : OccursAt(s, p, k)}
    IN  IF hits = {} THEN -1 ELSE CHOOSE k \in hits : \A h \in hits : k >= h

\* p in s
Contains(s, p) == \E k \in 0..(Len(s) - Len(p)) : OccursAt(s, p, k)

\* s.startswith(p), s.endswith(p)
StartsWith(s, p) == Len(p) <= Len(s) /\ SubSeq(s, 1, Len(p)) = p
EndsWith(s, p) == Len(p) <= Len(s) /\ SubSeq(s, Len(s) - Len(p) + 1, Len(s)) = p

IsSpace(c) == c \in {" ", "\n", "\t", "\r"}

\* s.lstrip(), s.rstrip(), s.strip()
RECURSIVE LStrip(_)
LStrip(s) == IF Len(s) > 0 /\ IsSpace(SubSeq(s, 1, 1)) THEN LStrip(SubSeq(s, 2, Len(s))) ELSE s
RECURSIVE RStrip(_)
RStrip(s) == IF Len(s) > 0 /\ IsSpace(SubSeq(s, Len(s), Len(s))) THEN RStrip(SubSeq(s, 1, Len(s) - 1)) ELSE s
Strip(s) == LStrip(RStrip(s))

\* s.rstrip("\n")
RECURSIVE RStripNl(_)
RStripNl(s) == IF Len(s) > 0 /\ SubSeq(s, Len(s), Len(s)) = "\n" THEN RStripNl(SubSeq(s, 1, Len(s) - 1)) ELSE s

\* offset of the first "\n" of s at or after k, or -1 (a scan of one line)
RECURSIVE NextNl(_, _)
NextNl(s, k) ==
    IF k >= Len(s) THEN -1
    ELSE IF SubSeq(s, k + 1, k + 1) = "\n" THEN k ELSE NextNl(s, k + 1)

RECURSIVE SplitFrom(_, _)
SplitFrom(s, a) ==
    IF a >= Len(s) THEN <<>>
    ELSE LET j == NextNl(s, a)
         IN  IF j < 0 THEN <<SliceFrom(s, a)>>
             ELSE <<Slice(s, a, j + 1)>> \o SplitFrom(s, j + 1)

\* s.splitlines(keepends=True)
split_lines_keepends(s) == SplitFrom(s, 0)

\* "".join(ls)
RECURSIVE Join(_)
Join(ls) == IF ls = <<>> THEN "" ELSE Head(ls) \o Join(Tail(ls))

\* sep.join(ls)
RECURSIVE JoinWith(_, _)
JoinWith(sep, ls) ==
    IF ls = <<>> THEN ""
    ELSE IF Len(ls) = 1 THEN ls[1] ELSE ls[1] \o sep \o JoinWith(sep, Tail(ls))

\* ls[a:b] = new   (a list slice assignment; a = b inserts, new = <<>> deletes)
ListSplice(ls, a, b, new) == SubSeq(ls, 1, a) \o new \o SubSeq(ls, b + 1, Len(ls))

\* ls[a:b]
ListSlice(ls, a, b) == SubSeq(ls, a + 1, b)

\* the first index k of lo..hi-1 with P(ls[k]), or -1: `for k in range(lo, hi): if P: break`
FirstIdx(ls, P(_), lo, hi) ==
    LET hits == {k \in lo..(hi - 1) : P(ls[k + 1])}
    IN  IF hits = {} THEN -1 ELSE CHOOSE k \in hits : \A h \in hits : k <= h

\* [f(x) for x in ls]
MapSeq(ls, f(_)) == [i \in 1..Len(ls) |-> f(ls[i])]

\* x in ls
InSeq(x, ls) == \E i \in 1..Len(ls) : ls[i] = x

\* Result of a text transformer: (text, changed), or the exception it raised.
Ok(t, ch) == [text |-> t, changed |-> ch, err |-> ""]
Raise(message) == [text |-> "", changed |-> FALSE, err |-> message]

(***************************************************************************)
(* CONFIG: module-level constants of the scripts                           *)
(***************************************************************************)

\* RESI_PROXY (stand-in for the shipped name; the other fields are the defaults)
RESI_PROXY == [name |-> "Pre-SOCKS5", type |-> "socks5", server |-> "YOUR_RESI_IP",
               port |-> 443, username |-> "YOUR_USERNAME", password |-> "YOUR_PASSWORD"]
RESI_PROXY_VIA_HK_NAME == "Pre-SOCKS5(HK)"

US_NODE_PATTERNS == <<"UM Meiguo *", "USF *", "US *", "United States *">>
US_NODES_FALLBACK == <<"UM Meiguo 01", "UM Meiguo 02", "UM Meiguo 03">>

GROUP_US_RELAY == "US-Relay"
\* GROUP_ONECLICK differs between the scripts
GROUP_ONECLICK == "Resi-Out"
SAN_GROUP_ONECLICK == "Resi-US"
GROUP_NODE_SELECT_DEFAULT == "NodeSel"
GROUP_ALL_NODES_BEST == "Best"
GROUP_DIALER_SELECTOR == "Dial-Sel"
ENABLE_ALL_NODES_BEST == TRUE
NODE_SELECT_FALLBACKS == <<"NodeSel", "NodeSel2", "Proxy", "PROXY", "Daili", "Moren">>

FEATURE_RESI == "resi"
FEATURE_BYPASS == "bypass"

TOPLEVEL_PORT == 7891
HEALTHCHECK_URL == "http://www.gstatic.com/generate_204"
HEALTHCHECK_INTERVAL == 300
HEALTHCHECK_TOLERANCE == 50

\* as main leaves them after _apply_env_overrides, with BYPASS_IP_CIDRS=10.0.0.0/8
\* and BYPASS_DOMAINS=example.com in the environment
BYPASS_IP_CIDRS == <<"10.0.0.0/8">>
BYPASS_DOMAINS == <<"example.com">>
FakeipOf(d) == "+." \o d
BYPASS_FAKEIP_FILTER == MapSeq(BYPASS_DOMAINS, FakeipOf)

\* GROUP_NODE_SELECT after _apply_env_overrides
GROUP_NODE_SELECT(c) ==
    IF Strip(c.ns_env) # "" THEN Strip(c.ns_env) ELSE GROUP_NODE_SELECT_DEFAULT

(***************************************************************************)
(* Section extractor and block locator                                     *)
(***************************************************************************)

\* {header!r} of lines 177 and 180, for a header without quotes
RECURSIVE ReprBody(_)
ReprBody(s) ==
    IF Len(s) = 0 THEN ""
    ELSE (IF SubSeq(s, 1, 1) = "\n" THEN "\\n" ELSE SubSeq(s, 1, 1)) \o ReprBody(SubSeq(s, 2, Len(s)))

Repr(s) == "'" \o ReprBody(s) \o "'"

\* _section_bounds taking the last occurrence of the opening header
section_bounds_last_header(t, header, next_header) ==
    LET hits == {k \in 0..(Len(t) - Len(header)) : OccursAt(t, header, k)}
        i == IF hits = {} THEN -1 ELSE CHOOSE k \in hits : \A h \in hits : k >= h
        j == IF i < 0 THEN -1 ELSE Find(t, next_header, i + Len(header))
    IN  IF i < 0 THEN [i |-> -1, j |-> -1, err |-> "Missing section header: " \o Repr(header)]
        ELSE IF j < 0
        THEN [i |-> -1, j |-> -1, err |-> "Missing section header: " \o Repr(next_header)]
        ELSE [i |-> i, j |-> j, err |-> ""]

\* _section_bounds: [i, j, err], err the message of the ValueError or ""
section_bounds(t, header, next_header) ==
    LET i == Find(t, header, 0)
        j == Find(t, next_header, i + Len(header))
    IN  IF i < 0 THEN [i |-> -1, j |-> -1, err |-> "Missing section header: " \o Repr(header)]
        ELSE IF j < 0
        THEN [i |-> -1, j |-> -1, err |-> "Missing section header: " \o Repr(next_header)]
        ELSE [i |-> i, j |-> j, err |-> ""]

\* is_item_start of _find_list_item_block
is_item_start(ln, dash_indent) ==
    ln = dash_indent \o "-\n" \/ RStripNl(ln) = dash_indent \o "-"

\* the line names the block: the two tests of lines 795-796
NameLineMatches(ln, name) ==
    /\ StartsWith(LStrip(ln), "name: ")
    /\ \/ Contains(ln, "name: '" \o name \o "'")
       \/ Contains(ln, "name: \"" \o name \o "\"")

\* inner loop of lines 794-799: <<found, j>>
RECURSIVE ScanItemForName(_, _, _, _)
ScanItemForName(lines, j, dash_indent, name) ==
    IF j < Len(lines) /\ ~is_item_start(lines[j + 1], dash_indent)
    THEN IF NameLineMatches(lines[j + 1], name) THEN <<TRUE, j>>
         ELSE ScanItemForName(lines, j + 1, dash_indent, name)
    ELSE <<FALSE, j>>

\* loop of lines 801-803: the end of the item that starts before k
RECURSIVE ItemEnd(_, _, _)
ItemEnd(lines, k, dash_indent) ==
    IF k < Len(lines) /\ ~is_item_start(lines[k + 1], dash_indent)
    THEN ItemEnd(lines, k + 1, dash_indent)
    ELSE k

\* _find_list_item_block: <<bs, be>> or <<-1, -1>>
RECURSIVE find_list_item_block(_, _, _, _)
find_list_item_block(lines, i, dash_indent, name) ==
    IF i < Len(lines)
    THEN IF is_item_start(lines[i + 1], dash_indent)
         THEN LET r == ScanItemForName(lines, i + 1, dash_indent, name)
              IN  IF r[1] THEN <<i, ItemEnd(lines, i + 1, dash_indent)>>
                  ELSE find_list_item_block(lines, IF r[2] > i THEN r[2] ELSE i + 1,
                                            dash_indent, name)
         ELSE find_list_item_block(lines, i + 1, dash_indent, name)
    ELSE <<-1, -1>>

\* the name a `name: ` line declares, or "" (lines 679-685 / 817-823)
DeclaredName(ln) ==
    LET s == Strip(ln)
    IN  IF ~StartsWith(s, "name: ") THEN ""
        ELSE IF StartsWith(s, "name: '") /\ EndsWith(s, "'") THEN Slice(s, Len("name: '"), Len(s) - 1)
        ELSE IF StartsWith(s, "name: \"") /\ EndsWith(s, "\"") THEN Slice(s, Len("name: \""), Len(s) - 1)
        ELSE ""

\* a `name: '...'` line appends to names, also when the name is empty
DeclaresName(ln) ==
    LET s == Strip(ln)
    IN  /\ StartsWith(s, "name: ")
        /\ \/ StartsWith(s, "name: '") /\ EndsWith(s, "'")
           \/ StartsWith(s, "name: \"") /\ EndsWith(s, "\"")

RECURSIVE NamesOfLines(_)
NamesOfLines(lines) ==
    IF lines = <<>> THEN <<>>
    ELSE (IF DeclaresName(Head(lines)) THEN <<DeclaredName(Head(lines))>> ELSE <<>>)
         \o NamesOfLines(Tail(lines))

\* _extract_proxy_names_from_proxies_section
extract_proxy_names_from_proxies_section(section_text) ==
    NamesOfLines(split_lines_keepends(section_text))

\* _extract_group_names_from_proxy_groups_section
extract_group_names_from_proxy_groups_section(section_text) ==
    NamesOfLines(split_lines_keepends(section_text))

(***************************************************************************)
(* Block renderer                                                          *)
(***************************************************************************)

\* _render_proxy_block of the full script (dials through GROUP_ALL_NODES_BEST)
render_proxy_block ==
    "  -\n"
    \o "    name: '" \o RESI_PROXY.name \o "'\n"
    \o "    type: " \o RESI_PROXY.type \o "\n"
    \o "    server: " \o RESI_PROXY.server \o "\n"
    \o "    port: " \o ToString(RESI_PROXY.port) \o "\n"
    \o "    username: '" \o RESI_PROXY.username \o "'\n"
    \o "    password: '" \o RESI_PROXY.password \o "'\n"
    \o "    dialer-proxy: '" \o GROUP_ALL_NODES_BEST \o "'\n"

\* _render_proxy_block of the sanitized script (dials through GROUP_US_RELAY)
san_render_proxy_block ==
    "  -\n"
    \o "    name: '" \o RESI_PROXY.name \o "'\n"
    \o "    type: " \o RESI_PROXY.type \o "\n"
    \o "    server: " \o RESI_PROXY.server \o "\n"
    \o "    port: " \o ToString(RESI_PROXY.port) \o "\n"
    \o "    username: '" \o RESI_PROXY.username \o "'\n"
    \o "    password: '" \o RESI_PROXY.password \o "'\n"
    \o "    dialer-proxy: '" \o GROUP_US_RELAY \o "'\n"

\* f"      - '{n}'\n"
MemberLine(n) == "      - '" \o n \o "'\n"

\* _render_group_all_nodes_best_with_nodes
render_group_all_nodes_best_with_nodes(nodes) ==
    "  -\n"
    \o "    name: '" \o GROUP_ALL_NODES_BEST \o "'\n"
    \o "    type: url-test\n"
    \o "    url: '" \o HEALTHCHECK_URL \o "'\n"
    \o "    interval: " \o ToString(HEALTHCHECK_INTERVAL) \o "\n"
    \o "    tolerance: " \o ToString(HEALTHCHECK_TOLERANCE) \o "\n"
    \o "    proxies:\n"
    \o Join(MapSeq(nodes, MemberLine))

\* _render_group_us_relay_with_nodes
render_group_us_relay_with_nodes(us_nodes) ==
    "  -\n"
    \o "    name: '" \o GROUP_US_RELAY \o "'\n"
    \o "    type: url-test\n"
    \o "    url: '" \o HEALTHCHECK_URL \o "'\n"
    \o "    interval: " \o ToString(HEALTHCHECK_INTERVAL) \o "\n"
    \o "    tolerance: " \o ToString(HEALTHCHECK_TOLERANCE) \o "\n"
    \o "    proxies:\n"
    \o Join(MapSeq(us_nodes, MemberLine))

\* _render_group_oneclick of the sanitized script
san_render_group_oneclick ==
    "  -\n"
    \o "    name: '" \o SAN_GROUP_ONECLICK \o "'\n"
    \o "    type: select\n"
    \o "    proxies:\n"
    \o "      - '" \o RESI_PROXY.name \o "'\n"
    \o "      - DIRECT\n"

(***************************************************************************)
(* Idempotent mutator: the ensure / remove operations on a section         *)
(***************************************************************************)

\* _ensure_in_section_list putting an absent block at the end of the section
ensure_in_section_list_at_end(section_text, item_name, rendered_block, dash_indent) ==
    LET lines == split_lines_keepends(section_text)
        b == find_list_item_block(lines, 1, dash_indent, item_name)
        rendered_lines == split_lines_keepends(rendered_block)
    IN  IF b[1] < 0
        THEN Ok(Join(lines \o rendered_lines), TRUE)
        ELSE IF Join(ListSlice(lines, b[1], b[2])) # rendered_block
             THEN Ok(Join(ListSplice(lines, b[1], b[2], rendered_lines)), TRUE)
             ELSE Ok(Join(lines), FALSE)

\* _ensure_in_section_list
ensure_in_section_list(section_text, item_name, rendered_block, dash_indent) ==
    LET lines == split_lines_keepends(section_text)
        start_idx == 1
        b == find_list_item_block(lines, start_idx, dash_indent, item_name)
        rendered_lines == split_lines_keepends(rendered_block)
    IN  IF b[1] < 0
        THEN Ok(Join(ListSplice(lines, start_idx, start_idx, rendered_lines)), TRUE)
        ELSE IF Join(ListSlice(lines, b[1], b[2])) # rendered_block
             THEN Ok(Join(ListSplice(lines, b[1], b[2], rendered_lines)), TRUE)
             ELSE Ok(Join(lines), FALSE)

\* loop of lines 1002-1009 of _ensure_many_in_section_list over items[k..]:
\* [lines, changed, missing_blocks]
RECURSIVE EnsureManyLoop(_, _, _, _)
EnsureManyLoop(st, items, k, dash_indent) ==
    IF k > Len(items) THEN st
    ELSE LET name == items[k][1]
             block == items[k][2]
             b == find_list_item_block(st.lines, 1, dash_indent, name)
         IN  IF b[1] < 0
             THEN EnsureManyLoop([st EXCEPT !.missing_blocks = Append(@, block)],
                                 items, k + 1, dash_indent)
             ELSE IF Join(ListSlice(st.lines, b[1], b[2])) # block
                  THEN EnsureManyLoop(
                         [st EXCEPT !.lines = ListSplice(@, b[1], b[2], split_lines_keepends(block)),
                                    !.changed = TRUE],
                         items, k + 1, dash_indent)
                  ELSE EnsureManyLoop(st, items, k + 1, dash_indent)

\* _ensure_many_in_section_list
ensure_many_in_section_list(section_text, items, dash_indent) ==
    IF items = <<>> THEN Ok(section_text, FALSE)
    ELSE LET st == EnsureManyLoop([lines |-> split_lines_keepends(section_text),
                                   changed |-> FALSE, missing_blocks |-> <<>>],
                                  items, 1, dash_indent)
         IN  IF st.missing_blocks # <<>>
             THEN Ok(Join(ListSplice(st.lines, 1, 1,
                                     split_lines_keepends(Join(st.missing_blocks)))), TRUE)
             ELSE Ok(Join(st.lines), st.changed)

\* the member line of entry_name is in the block, single- or double-quoted (line 1073)
BlockHasEntry(block_text, entry_name) ==
    \/ Contains(block_text, "      - '" \o entry_name \o "'\n")
    \/ Contains(block_text, "      - \"" \o entry_name \o "\"\n")

IsProxiesLine(ln) == StartsWith(ln, "    proxies:")

\* _ensure_node_select_contains writing the entry over the first member
\* (block[proxies_idx + 1] = ... for block.insert(proxies_idx + 1, ...))
ensure_node_select_contains_overwrite(section_text, group_name, entry_name) ==
    LET lines == split_lines_keepends(section_text)
        b == find_list_item_block(lines, 1, "  ", group_name)
        block == ListSlice(lines, b[1], b[2])
        proxies_idx == FirstIdx(block, IsProxiesLine, 0, Len(block))
    IN  IF b[1] < 0 THEN Raise("Missing proxy group " \o Repr(group_name) \o " in proxy-groups section")
        ELSE IF BlockHasEntry(Join(block), entry_name) THEN Ok(section_text, FALSE)
        ELSE IF proxies_idx < 0 THEN Raise("Group " \o Repr(group_name) \o " missing proxies list")
        ELSE Ok(Join(ListSplice(lines, b[1], b[2],
                        ListSplice(block, proxies_idx + 1, proxies_idx + 2,
                                   <<"      - '" \o entry_name \o "'\n">>))), TRUE)

\* _ensure_node_select_contains
ensure_node_select_contains(section_text, group_name, entry_name) ==
    LET lines == split_lines_keepends(section_text)
        b == find_list_item_block(lines, 1, "  ", group_name)
        block == ListSlice(lines, b[1], b[2])
        proxies_idx == FirstIdx(block, IsProxiesLine, 0, Len(block))
    IN  IF b[1] < 0 THEN Raise("Missing proxy group " \o Repr(group_name) \o " in proxy-groups section")
        ELSE IF BlockHasEntry(Join(block), entry_name) THEN Ok(section_text, FALSE)
        ELSE IF proxies_idx < 0 THEN Raise("Group " \o Repr(group_name) \o " missing proxies list")
        ELSE Ok(Join(ListSplice(lines, b[1], b[2],
                        ListSplice(block, proxies_idx + 1, proxies_idx + 1,
                                   <<"      - '" \o entry_name \o "'\n">>))), TRUE)

\* lines 1023-1029 of _set_group_proxies_exact: the entries without repetitions
RECURSIVE UniqueEntries(_, _)
UniqueEntries(entries, seen) ==
    IF entries = <<>> THEN <<>>
    ELSE IF Head(entries) \in seen THEN UniqueEntries(Tail(entries), seen)
    ELSE <<Head(entries)>> \o UniqueEntries(Tail(entries), seen \cup {Head(entries)})

\* lines 1045-1047: delete the dash lines that follow the proxies line at k
RECURSIVE DropDashLines(_, _)
DropDashLines(block, k) ==
    IF k < Len(block) /\ StartsWith(block[k + 1], "      -")
    THEN DropDashLines(ListSplice(block, k, k + 1, <<>>), k)
    ELSE block

\* lines 1049-1054: one member line per entry
RenderEntry(e) == IF e = "DIRECT" THEN "      - DIRECT\n" ELSE "      - '" \o e \o "'\n"

\* lines 1045-1063, once the block and its proxies line are found
set_block_proxies(section_text, lines, b, block, proxies_idx, rendered) ==
    IF Join(ListSplice(DropDashLines(block, proxies_idx + 1),
                       proxies_idx + 1, proxies_idx + 1, rendered))
         = Join(ListSlice(lines, b[1], b[2]))
    THEN Ok(section_text, FALSE)
    ELSE Ok(Join(ListSplice(lines, b[1], b[2],
                 split_lines_keepends(
                     Join(ListSplice(DropDashLines(block, proxies_idx + 1),
                                     proxies_idx + 1, proxies_idx + 1, rendered))))), TRUE)

\* _set_group_proxies_exact
set_group_proxies_exact(section_text, group_name, entries) ==
    LET lines == split_lines_keepends(section_text)
        b == find_list_item_block(lines, 1, "  ", group_name)
        block == ListSlice(lines, b[1], b[2])
        proxies_idx == FirstIdx(block, IsProxiesLine, 0, Len(block))
    IN  IF b[1] < 0 THEN Raise("Missing proxy group " \o Repr(group_name) \o " in proxy-groups section")
        ELSE IF proxies_idx < 0 THEN Raise("Group " \o Repr(group_name) \o " missing proxies list")
        ELSE set_block_proxies(section_text, lines, b, block, proxies_idx,
                               MapSeq(UniqueEntries(entries, {}), RenderEntry))

\* _remove_group_by_name
remove_group_by_name(section_text, group_name) ==
    LET lines == split_lines_keepends(section_text)
        b == find_list_item_block(lines, 1, "  ", group_name)
    IN  IF b[1] < 0 THEN Ok(section_text, FALSE)
        ELSE Ok(Join(ListSplice(lines, b[1], b[2], <<>>)), TRUE)

\* the three forms of a member line that _remove_node_select_entry deletes
IsEntryLine(ln, entry_name) ==
    ln \in {"      - '" \o entry_name \o "'\n",
            "      - \"" \o entry_name \o "\"\n",
            "      - " \o entry_name \o "\n"}

RECURSIVE DropEntryLines(_, _)
DropEntryLines(block, entry_name) ==
    IF block = <<>> THEN <<>>
    ELSE (IF IsEntryLine(Head(block), entry_name) THEN <<>> ELSE <<Head(block)>>)
         \o DropEntryLines(Tail(block), entry_name)

\* _remove_node_select_entry
remove_node_select_entry(section_text, group_name, entry_name) ==
    LET lines == split_lines_keepends(section_text)
        b == find_list_item_block(lines, 1, "  ", group_name)
        block == ListSlice(lines, b[1], b[2])
        kept == DropEntryLines(block, entry_name)
    IN  IF b[1] < 0 THEN Ok(section_text, FALSE)
        ELSE IF kept = block THEN Ok(section_text, FALSE)
        ELSE Ok(Join(ListSplice(lines, b[1], b[2], kept)), TRUE)

\* _ensure_toplevel_port (the two scripts hold the same function)
ensure_toplevel_port(t, desired_port) ==
    LET lines == split_lines_keepends(t)
        IsStop(ln) == StartsWith(ln, "dns:") \/ StartsWith(ln, "proxies:")
        IsPort(ln) == StartsWith(ln, "port: ")
        IsMixed(ln) == StartsWith(ln, "mixed-port: ")
        stop0 == FirstIdx(lines, IsStop, 0, Len(lines))
        stop_idx == IF stop0 < 0 THEN Len(lines) ELSE stop0
        port_line_idx == FirstIdx(lines, IsPort, 0, stop_idx)
        insert_after == FirstIdx(lines, IsMixed, 0, stop_idx)
        port_line == "port: " \o ToString(desired_port) \o "\n"
        desired == "port: " \o ToString(desired_port)
    IN  IF port_line_idx < 0
        THEN IF insert_after >= 0
             THEN Ok(Join(ListSplice(lines, insert_after + 1, insert_after + 1, <<port_line>>)), TRUE)
             ELSE Ok(Join(ListSplice(lines, stop_idx, stop_idx, <<port_line>>)), TRUE)
        ELSE IF Strip(lines[port_line_idx + 1]) # desired
             THEN Ok(Join(ListSplice(lines, port_line_idx, port_line_idx + 1, <<desired \o "\n">>)), TRUE)
             ELSE Ok(Join(lines), FALSE)

(***************************************************************************)
(* Name / pattern resolver                                                 *)
(***************************************************************************)

LowerChar(c) ==
    CASE c = "A" -> "a" [] c = "B" -> "b" [] c = "C" -> "c" [] c = "D" -> "d"
      [] c = "E" -> "e" [] c = "F" -> "f" [] c = "G" -> "g" [] c = "H" -> "h"
      [] c = "I" -> "i" [] c = "J" -> "j" [] c = "K" -> "k" [] c = "L" -> "l"
      [] c = "M" -> "m" [] c = "N" -> "n" [] c = "O" -> "o" [] c = "P" -> "p"
      [] c = "Q" -> "q" [] c = "R" -> "r" [] c = "S" -> "s" [] c = "T" -> "t"
      [] c = "U" -> "u" [] c = "V" -> "v" [] c = "W" -> "w" [] c = "X" -> "x"
      [] c = "Y" -> "y" [] c = "Z" -> "z" [] OTHER -> c

\* s.lower()
RECURSIVE Lower(_)
Lower(s) == IF Len(s) = 0 THEN "" ELSE LowerChar(SubSeq(s, 1, 1)) \o Lower(SubSeq(s, 2, Len(s)))

\* fnmatch.fnmatchcase(name, pat) for patterns of literals, `?` and `*`
RECURSIVE fnmatchcase(_, _)
fnmatchcase(name, pat) ==
    IF Len(pat) = 0 THEN Len(name) = 0
    ELSE LET p == SubSeq(pat, 1, 1)
             rest == SubSeq(pat, 2, Len(pat))
         IN  IF p = "*"
             THEN \E k \in 0..Len(name) : fnmatchcase(SliceFrom(name, k), rest)
             ELSE /\ Len(name) > 0
                  /\ p = "?" \/ p = SubSeq(name, 1, 1)
                  /\ fnmatchcase(SubSeq(name, 2, Len(name)), rest)

\* re.search(p, name) for a pattern of literal characters
re_search(p, name) == Contains(name, p)

\* re.compile(p) raises re.error: the one malformed pattern of the model's inputs
re_error(p) == p = "("

\* str(e) of that re.error
re_error_text(p) == "missing ), unterminated subpattern at position 0"

\* rx.search(name) for rx = re.compile(p, re.IGNORECASE), p of literal characters
re_search_ignorecase(p, name) == Contains(Lower(name), Lower(p))

\* _match_name_patterns: the patterns in order, the first match returns
RECURSIVE match_name_patterns(_, _)
match_name_patterns(name, patterns) ==
    IF patterns = <<>> THEN FALSE
    ELSE LET pat == Head(patterns)
         IN  IF StartsWith(pat, "re:")
             THEN IF re_search(SliceFrom(pat, 3), name) THEN TRUE
                  ELSE match_name_patterns(name, Tail(patterns))
             ELSE IF fnmatchcase(name, pat) THEN TRUE
                  ELSE match_name_patterns(name, Tail(patterns))

\* _resolve_us_nodes looping over the patterns first, the names second
RECURSIVE NamesByPattern(_, _)
NamesByPattern(names, patterns) ==
    IF patterns = <<>> THEN <<>>
    ELSE LET Hit(n) == match_name_patterns(n, <<Head(patterns)>>)
         IN  SelectSeq(names, Hit) \o NamesByPattern(names, Tail(patterns))

resolve_us_nodes_by_pattern(all_proxy_names_in_order) ==
    LET NotResi(n) == n # RESI_PROXY.name
        matched == SelectSeq(NamesByPattern(all_proxy_names_in_order, US_NODE_PATTERNS), NotResi)
    IN  IF matched # <<>> THEN matched ELSE US_NODES_FALLBACK

\* _resolve_us_nodes
resolve_us_nodes(all_proxy_names_in_order) ==
    LET Hit(n) == match_name_patterns(n, US_NODE_PATTERNS)
        NotResi(n) == n # RESI_PROXY.name
        matched == SelectSeq(SelectSeq(all_proxy_names_in_order, Hit), NotResi)
    IN  IF matched # <<>> THEN matched ELSE US_NODES_FALLBACK

\* _select_dialer_candidates: [candidates, warn] (warn = "" for None)
select_dialer_candidates(all_proxy_names_in_order, c) ==
    LET NotResi(n) == n \notin {RESI_PROXY.name, RESI_PROXY_VIA_HK_NAME}
        candidates == SelectSeq(all_proxy_names_in_order, NotResi)
        m0 == Lower(Strip(c.dialer_mode))
        mode == IF m0 = "" THEN "all" ELSE m0
        pattern == Strip(c.dialer_regex)
        Hit(n) == re_search_ignorecase(pattern, n)
        filtered == SelectSeq(candidates, Hit)
    IN  IF candidates = <<>>
        THEN [candidates |-> <<>>, warn |-> "resi: no dialer candidates found in proxies section"]
        ELSE IF mode = "all" THEN [candidates |-> candidates, warn |-> ""]
        ELSE IF mode = "regex"
             THEN IF pattern = ""
                  THEN [candidates |-> candidates,
                        warn |-> "resi: RESI_DIALER_MODE=regex but RESI_DIALER_REGEX is empty; falling back to all"]
                  ELSE IF re_error(pattern)
                  THEN [candidates |-> candidates,
                        warn |-> "resi: invalid regex in RESI_DIALER_REGEX: " \o re_error_text(pattern)
                                 \o "; falling back to all"]
                  ELSE IF filtered = <<>>
                  THEN [candidates |-> candidates,
                        warn |-> "resi: regex matched 0 nodes; falling back to all (pattern="
                                 \o Repr(pattern) \o ")"]
                  ELSE [candidates |-> filtered, warn |-> ""]
             ELSE [candidates |-> candidates,
                   warn |-> "resi: unknown RESI_DIALER_MODE=" \o Repr(mode) \o "; falling back to all"]

\* _truthy_env
truthy_env(v) == Lower(Strip(v)) \in {"1", "true", "yes", "y", "on"}

\* the loop of lines 851-853 over the fallback names
RECURSIVE FirstPresent(_, _)
FirstPresent(cands, names) ==
    IF cands = <<>> THEN ""
    ELSE IF InSeq(Head(cands), names) THEN Head(cands) ELSE FirstPresent(Tail(cands), names)

\* _resolve_node_select_group_name ("" for None)
resolve_node_select_group_name(section_text, c) ==
    LET names == extract_group_names_from_proxy_groups_section(section_text)
        env_name == Strip(c.ns_env)
    IN  IF names = <<>> THEN ""
        ELSE IF env_name # "" /\ InSeq(env_name, names) THEN env_name
        ELSE IF InSeq(GROUP_NODE_SELECT(c), names) THEN GROUP_NODE_SELECT(c)
        ELSE FirstPresent(NODE_SELECT_FALLBACKS, names)

(***************************************************************************)
(* Compatibility resolver                                                  *)
(***************************************************************************)

MIHOMO_HINTS == <<"dialer-proxy:", "geodata-mode:", "sniffer:", "external-controller:">>

\* a detection that looks for the first marker only
detect_compat_first_hint(t) ==
    IF Contains(t, MIHOMO_HINTS[1]) THEN "mihomo" ELSE "classic"

\* _detect_compat_from_text
detect_compat_from_text(t) ==
    IF \E i \in 1..Len(MIHOMO_HINTS) : Contains(t, MIHOMO_HINTS[i]) THEN "mihomo" ELSE "classic"

\* _resolve_compat ("" when it raises ValueError)
resolve_compat(compat_arg, yaml_text) ==
    LET a0 == IF compat_arg = "" THEN "auto" ELSE compat_arg
        a == Lower(Strip(a0))
    IN  IF a = "auto" THEN detect_compat_from_text(yaml_text)
        ELSE IF a \in {"mihomo", "classic"} THEN a
        ELSE ""

(***************************************************************************)
(* Bypass injection                                                        *)
(***************************************************************************)

\* the header line of a top-level key (lines 435, 462, 651)
IsKeyHeader(ln, key) == StartsWith(ln, key \o ":\n") \/ RStripNl(ln) = key \o ":"

\* loop of lines 441-446: the end of the top-level block
RECURSIVE TopLevelBlockEnd(_, _)
TopLevelBlockEnd(lines, j) ==
    IF j < Len(lines)
       /\ (Strip(lines[j + 1]) = "" \/ StartsWith(lines[j + 1], "#") \/ StartsWith(lines[j + 1], " "))
    THEN TopLevelBlockEnd(lines, j + 1)
    ELSE j

\* _find_top_level_block: <<start, end>> or <<-1, -1>>
find_top_level_block(lines, key) ==
    LET IsHead(ln) == IsKeyHeader(ln, key)
        start == FirstIdx(lines, IsHead, 0, Len(lines))
    IN  IF start < 0 THEN <<-1, -1>> ELSE <<start, TopLevelBlockEnd(lines, start + 1)>>

\* loops of lines 527-530, 580-583, 634-637: the end of the list under a 2-space key
RECURSIVE SubListEnd(_, _, _)
SubListEnd(lines, j, block_end) ==
    IF j < block_end
    THEN IF StartsWith(lines[j + 1], "  ") /\ ~StartsWith(lines[j + 1], "    ") THEN j
         ELSE SubListEnd(lines, j + 1, block_end)
    ELSE j

DashItem(c) == "    - " \o c \o "\n"

\* `inner2` of lines 517-520 and 571-574
InlineAppend(inner, new_items) ==
    LET r == RStrip(inner)
        r2 == IF r # "" /\ ~EndsWith(Strip(r), ",") THEN r \o ", " ELSE r
    IN  r2 \o JoinWith(", ", new_items)

\* _ensure_tun_route_exclude
ensure_tun_route_exclude(t, cidrs) ==
    LET lines == split_lines_keepends(t)
        tun == find_top_level_block(lines, "tun")
        IsProxiesHead(ln) == IsKeyHeader(ln, "proxies")
        at0 == FirstIdx(lines, IsProxiesHead, 0, Len(lines))
        lines1 == IF at0 < 0 /\ Len(lines) > 0 /\ ~EndsWith(lines[Len(lines)], "\n")
                  THEN [lines EXCEPT ![Len(lines)] = @ \o "\n"] ELSE lines
        insert_at == IF at0 < 0 THEN Len(lines) ELSE at0
        tun_block == <<"tun:\n", "  enable: true\n", "  stack: system\n", "  auto-route: true\n",
                       "  auto-detect-interface: true\n", "  dns-hijack:\n", "    - any:53\n",
                       "  route-exclude-address:\n">> \o MapSeq(cidrs, DashItem) \o <<"\n">>
        block_text == Join(ListSlice(lines, tun[1], tun[2]))
        Missing(c) == ~Contains(block_text, c)
        missing == SelectSeq(cidrs, Missing)
        IsRex(ln) == StartsWith(LStrip(ln), "route-exclude-address:")
        rex_idx == FirstIdx(lines, IsRex, tun[1] + 1, tun[2])
        ln == lines[rex_idx + 1]
        open_i == Find(ln, "[", 0)
        close_i == RFind(ln, "]")
        inner == Slice(ln, open_i + 1, close_i)
        NotInner(c) == ~Contains(inner, c)
        new_items == SelectSeq(missing, NotInner)
        j == SubListEnd(lines, rex_idx + 1, tun[2])
    IN  IF cidrs = <<>> THEN Ok(t, FALSE)
        ELSE IF tun[1] < 0
        THEN Ok(Join(ListSplice(lines1, insert_at, insert_at, tun_block)), TRUE)
        ELSE IF missing = <<>> THEN Ok(t, FALSE)
        ELSE IF rex_idx < 0
        THEN Ok(Join(ListSplice(lines, tun[2], tun[2],
                       <<"  route-exclude-address:\n">> \o MapSeq(missing, DashItem))), TRUE)
        ELSE IF Contains(ln, "[") /\ Contains(ln, "]")
        THEN IF new_items # <<>>
             THEN Ok(Join([lines EXCEPT ![rex_idx + 1] =
                            Slice(ln, 0, open_i + 1) \o InlineAppend(inner, new_items)
                            \o SliceFrom(ln, close_i)]), TRUE)
             ELSE Ok(Join(lines), FALSE)
        ELSE Ok(Join(ListSplice(lines, j, j, MapSeq(missing, DashItem))), TRUE)

\* _ensure_dns_fakeip_filter
ensure_dns_fakeip_filter(t, patterns) ==
    LET lines == split_lines_keepends(t)
        dns == find_top_level_block(lines, "dns")
        block_text == Join(ListSlice(lines, dns[1], dns[2]))
        Missing(p) == ~Contains(block_text, p)
        missing == SelectSeq(patterns, Missing)
        IsFilter(ln) == StartsWith(LStrip(ln), "fake-ip-filter:")
        fidx == FirstIdx(lines, IsFilter, dns[1] + 1, dns[2])
        ln == lines[fidx + 1]
        open_i == Find(ln, "[", 0)
        close_i == RFind(ln, "]")
        inner == Slice(ln, open_i + 1, close_i)
        NotInner(p) == ~Contains(inner, p)
        j == SubListEnd(lines, fidx + 1, dns[2])
    IN  IF patterns = <<>> THEN Ok(t, FALSE)
        ELSE IF dns[1] < 0 THEN Ok(t, FALSE)
        ELSE IF missing = <<>> THEN Ok(t, FALSE)
        ELSE IF fidx < 0
        THEN Ok(Join(ListSplice(lines, dns[2], dns[2],
                       <<"  fake-ip-filter:\n">> \o MapSeq(missing, DashItem))), TRUE)
        ELSE IF Contains(ln, "[") /\ Contains(ln, "]")
        THEN Ok(Join([lines EXCEPT ![fidx + 1] =
                       Slice(ln, 0, open_i + 1)
                       \o InlineAppend(inner, SelectSeq(missing, NotInner))
                       \o SliceFrom(ln, close_i)]), TRUE)
        ELSE Ok(Join(ListSplice(lines, j, j, MapSeq(missing, DashItem))), TRUE)

\* v.replace('"', '\\"')
RECURSIVE EscapeQuotes(_)
EscapeQuotes(v) ==
    IF Len(v) = 0 THEN ""
    ELSE (IF SubSeq(v, 1, 1) = "\"" THEN "\\\"" ELSE SubSeq(v, 1, 1))
         \o EscapeQuotes(SubSeq(v, 2, Len(v)))

\* _yaml_inline_list
yaml_inline_list(values) ==
    LET Quoted(v) == "\"" \o EscapeQuotes(v) \o "\""
    IN  "[" \o JoinWith(", ", MapSeq(values, Quoted)) \o "]"

\* _ensure_dns_nameserver_policy
ensure_dns_nameserver_policy(t, domain_patterns, servers) ==
    LET lines == split_lines_keepends(t)
        dns == find_top_level_block(lines, "dns")
        block_text == Join(ListSlice(lines, dns[1], dns[2]))
        IsPolicy(ln) == StartsWith(LStrip(ln), "nameserver-policy:")
        np_idx == FirstIdx(lines, IsPolicy, dns[1] + 1, dns[2])
        Missing(dp) == ~Contains(block_text, dp)
        Entry(dp) == "    \"" \o dp \o "\": " \o yaml_inline_list(servers) \o "\n"
        entry_lines == MapSeq(SelectSeq(domain_patterns, Missing), Entry)
        j == SubListEnd(lines, np_idx + 1, dns[2])
    IN  IF domain_patterns = <<>> \/ servers = <<>> THEN Ok(t, FALSE)
        ELSE IF dns[1] < 0 THEN Ok(t, FALSE)
        ELSE IF entry_lines = <<>> THEN Ok(t, FALSE)
        ELSE IF np_idx < 0
        THEN Ok(Join(ListSplice(lines, dns[2], dns[2],
                       <<"  nameserver-policy:\n">> \o entry_lines)), TRUE)
        ELSE Ok(Join(ListSplice(lines, j, j, entry_lines)), TRUE)

\* _ensure_rules_bypass
ensure_rules_bypass(t) ==
    LET lines == split_lines_keepends(t)
        IsRulesHead(ln) == IsKeyHeader(ln, "rules")
        rules_idx == FirstIdx(lines, IsRulesHead, 0, Len(lines))
        CidrRule(c) == "- IP-CIDR," \o c \o ",DIRECT,no-resolve\n"
        DomainRule(d) == "- DOMAIN-SUFFIX," \o d \o ",DIRECT\n"
        wanted == MapSeq(BYPASS_IP_CIDRS, CidrRule) \o MapSeq(BYPASS_DOMAINS, DomainRule)
        hi == IF Len(lines) < rules_idx + 200 THEN Len(lines) ELSE rules_idx + 200
        rules_head == Join(ListSlice(lines, rules_idx, hi))
        Missing(r) == ~Contains(rules_head, Strip(r))
        missing == SelectSeq(wanted, Missing)
    IN  IF rules_idx < 0 THEN Ok(t, FALSE)
        ELSE IF missing = <<>> THEN Ok(t, FALSE)
        ELSE Ok(Join(ListSplice(lines, rules_idx + 1, rules_idx + 1, missing)), TRUE)

\* _parse_csv_env_list for BYPASS_INTERNAL_DNS; system_dns is what
\* _get_macos_system_dns returns on this host
RECURSIVE SplitComma(_)
SplitComma(s) ==
    LET k == Find(s, ",", 0)
    IN  IF k < 0 THEN <<s>> ELSE <<Slice(s, 0, k)>> \o SplitComma(SliceFrom(s, k + 1))

parse_csv_env_list(value, system_dns) ==
    LET raw == Strip(value)
        NonEmpty(p) == p # ""
    IN  IF raw = "" THEN <<>>
        ELSE IF Lower(raw) \in {"system", "auto"} THEN system_dns
        ELSE SelectSeq(MapSeq(SplitComma(raw), Strip), NonEmpty)

(***************************************************************************)
(* The run: main and patch_file, one action per stretch of straight code   *)
(***************************************************************************)

\* notes + [note] if cond
NoteIf(notes, cond, note) == IF cond THEN Append(notes, note) ELSE notes

WARN_TUN_SKIPPED == "bypass: compat=classic -> skipping tun.route-exclude-address injection"
WARN_DNS_IGNORED == "bypass: compat=classic -> ignoring BYPASS_INTERNAL_DNS (nameserver-policy may be unsupported)"
WARN_NO_SYSTEM_DNS == "bypass: BYPASS_INTERNAL_DNS=system but no system DNS detected (scutil --dns returned none)"
WARN_REGEX_EMPTY == "resi: RESI_DIALER_MODE=regex but RESI_DIALER_REGEX is empty; falling back to all"
WARN_NS_SKIP == "resi: RESI_SKIP_NODE_SELECT_REWRITE enabled -> skipping node-select update"
WARN_NS_UNDETECTED == "resi: could not detect node-select group name in YAML -> skipping node-select update to avoid breaking config"
WARN_NS_FAILED == "resi: failed to update node-select group safely: "
ERR_COMPAT == "Invalid --compat. Use: auto | mihomo | classic"
ERR_RESI_COMPAT == "resi feature requires mihomo/Clash.Meta core (dialer-proxy); set --compat mihomo or disable resi."
ERR_NO_RULES == "Missing rules: section; can't safely patch proxy-groups."
ERR_RELOCATE == "Failed to re-locate proxy-groups/rules sections after patch."

\* the variables only patch_file's resi part assigns
resi_locals == <<proxies_start, proxy_groups_start, proxies_section,
                 proxy_groups_section, all_nodes_best, ns_before>>
disk == <<file, backups, wrote>>
invocation == <<variant, cfg, run, prior, disk0>>

\* the run dies with an uncaught ValueError
Fatal(message) == pc' = "fatal" /\ err' = message

\* text.find("\nrules:\n", from), else text.find("rules:\n", from)  (lines 1192-1194, 1235-1237)
find_rules(t, from) ==
    LET e == Find(t, "\nrules:\n", from)
    IN  IF e < 0 THEN Find(t, "rules:\n", from) ELSE e

\* main, lines 1304-1313 and 1391 (sanitized: 337-340): resolve the dialect, call patch_file
Main ==
    /\ pc = "main"
    /\ LET c == IF variant = "full" THEN resolve_compat(cfg.compat_arg, file) ELSE "mihomo"
       IN  IF c = ""
           THEN Fatal(ERR_COMPAT) /\ UNCHANGED compat
           ELSE pc' = "patch_file" /\ compat' = c /\ UNCHANGED err
    /\ UNCHANGED <<invocation, new_text, disk, original, text, changed_any, change_notes,
                   warn_notes, resi_locals, outcome, msg>>

\* patch_file writing the backup as soon as it has read the document
PatchStart_backup_first ==
    /\ pc = "patch_file"
    /\ original' = file
    /\ text' = file
    /\ changed_any' = FALSE
    /\ change_notes' = <<>>
    /\ warn_notes' = <<>>
    /\ backups' = Append(backups, file)
    /\ wrote' = Append(wrote, "backup")
    /\ pc' = IF variant = "full" THEN "bypass" ELSE "san_patch"
    /\ UNCHANGED <<invocation, new_text, file, compat, resi_locals, outcome, msg, err>>

\* patch_file, lines 1127-1131 (sanitized: 265-267)
PatchStart ==
    /\ pc = "patch_file"
    /\ original' = file
    /\ text' = file
    /\ changed_any' = FALSE
    /\ change_notes' = <<>>
    /\ warn_notes' = <<>>
    /\ pc' = IF variant = "full" THEN "bypass" ELSE "san_patch"
    /\ UNCHANGED <<invocation, new_text, disk, compat, resi_locals, outcome, msg, err>>

\* the variables a bypass step leaves alone
bypass_frame == <<invocation, new_text, disk, compat, original, resi_locals, outcome, msg, err>>

\* lines 1133-1140 without the test of the dialect
BypassTun_any_dialect ==
    /\ pc = "bypass"
    /\ IF FEATURE_BYPASS \notin cfg.features
       THEN /\ pc' = "resi"
            /\ UNCHANGED <<text, changed_any, change_notes, warn_notes>>
       ELSE /\ pc' = "bypass_filter"
            /\ \E r \in {ensure_tun_route_exclude(text, BYPASS_IP_CIDRS)} :
                   /\ text' = r.text
                   /\ changed_any' = (changed_any \/ r.changed)
                   /\ change_notes' = NoteIf(change_notes, r.changed,
                                             "bypass: updated tun.route-exclude-address")
                   /\ UNCHANGED warn_notes
    /\ UNCHANGED bypass_frame

\* patch_file, lines 1133-1140: the tun exclusion, on mihomo only
BypassTun ==
    /\ pc = "bypass"
    /\ IF FEATURE_BYPASS \notin cfg.features
       THEN /\ pc' = "resi"
            /\ UNCHANGED <<text, changed_any, change_notes, warn_notes>>
       ELSE /\ pc' = "bypass_filter"
            /\ IF compat = "mihomo"
               THEN \E r \in {ensure_tun_route_exclude(text, BYPASS_IP_CIDRS)} :
                        /\ text' = r.text
                        /\ changed_any' = (changed_any \/ r.changed)
                        /\ change_notes' = NoteIf(change_notes, r.changed,
                                                  "bypass: updated tun.route-exclude-address")
                        /\ UNCHANGED warn_notes
               ELSE /\ warn_notes' = Append(warn_notes, WARN_TUN_SKIPPED)
                    /\ UNCHANGED <<text, changed_any, change_notes>>
    /\ UNCHANGED bypass_frame

\* patch_file, lines 1141-1144: the fake-ip filter
BypassFilter ==
    /\ pc = "bypass_filter"
    /\ pc' = "bypass_policy"
    /\ \E r \in {ensure_dns_fakeip_filter(text, BYPASS_FAKEIP_FILTER)} :
           /\ text' = r.text
           /\ changed_any' = (changed_any \/ r.changed)
           /\ change_notes' = NoteIf(change_notes, r.changed, "bypass: updated dns.fake-ip-filter")
    /\ UNCHANGED warn_notes
    /\ UNCHANGED bypass_frame

\* patch_file, lines 1145-1158: the nameserver policy, on mihomo only
BypassPolicy ==
    /\ pc = "bypass_policy"
    /\ pc' = "bypass_rules"
    /\ IF compat = "mihomo"
       THEN \E dns_list \in {parse_csv_env_list(cfg.internal_dns, cfg.system_dns)} :
            \E r \in {ensure_dns_nameserver_policy(text, BYPASS_FAKEIP_FILTER, dns_list)} :
                /\ warn_notes' = NoteIf(warn_notes,
                                        Lower(Strip(cfg.internal_dns)) \in {"system", "auto"}
                                        /\ dns_list = <<>>,
                                        WARN_NO_SYSTEM_DNS)
                /\ text' = r.text
                /\ changed_any' = (changed_any \/ r.changed)
                /\ change_notes' = NoteIf(change_notes, r.changed,
                                          "bypass: updated dns.nameserver-policy")
       ELSE /\ warn_notes' = NoteIf(warn_notes, Strip(cfg.internal_dns) # "", WARN_DNS_IGNORED)
            /\ UNCHANGED <<text, changed_any, change_notes>>
    /\ UNCHANGED bypass_frame

\* patch_file, lines 1159-1162: the DIRECT rules
BypassRules ==
    /\ pc = "bypass_rules"
    /\ pc' = "resi"
    /\ \E r \in {ensure_rules_bypass(text)} :
           /\ text' = r.text
           /\ changed_any' = (changed_any \/ r.changed)
           /\ change_notes' = NoteIf(change_notes, r.changed,
                                     "bypass: inserted DIRECT rules into rules:")
    /\ UNCHANGED warn_notes
    /\ UNCHANGED bypass_frame

\* the gate of line 1166 left open
resi_compat_ok_any(c) == TRUE

\* the dialect the relay chain needs (line 1166)
resi_compat_ok(c) == c = "mihomo"

\* patch_file, lines 1165-1173: the dialect gate, the top-level port
ResiGate ==
    /\ pc = "resi"
    /\ IF FEATURE_RESI \notin cfg.features
       THEN /\ pc' = "report"
            /\ UNCHANGED <<text, changed_any, change_notes, warn_notes, err>>
       ELSE IF ~resi_compat_ok(compat)
       THEN /\ Fatal(ERR_RESI_COMPAT)
            /\ UNCHANGED <<text, changed_any, change_notes, warn_notes>>
       ELSE LET r == ensure_toplevel_port(text, TOPLEVEL_PORT)
            IN  /\ warn_notes' = NoteIf(warn_notes,
                                        Lower(Strip(cfg.dialer_mode)) = "regex"
                                        /\ Strip(cfg.dialer_regex) = "",
                                        WARN_REGEX_EMPTY)
                /\ text' = r.text
                /\ changed_any' = (changed_any \/ r.changed)
                /\ change_notes' = NoteIf(change_notes, r.changed, "resi: ensured top-level port")
                /\ pc' = "resi_proxies"
                /\ UNCHANGED err
    /\ UNCHANGED <<invocation, new_text, disk, compat, original, resi_locals, outcome, msg>>

\* patch_file, lines 1175-1197: the two sections, the relay's proxy block, the candidates
ResiProxies ==
    /\ pc = "resi_proxies"
    /\ LET sb == section_bounds(text, "proxies:\n", "proxy-groups:\n")
           r == ensure_in_section_list(Slice(text, sb.i, sb.j), RESI_PROXY.name,
                                       render_proxy_block, "  ")
           sel == select_dialer_candidates(extract_proxy_names_from_proxies_section(r.text), cfg)
           proxy_groups_end == find_rules(text, sb.j)
       IN  IF sb.err # ""
           THEN /\ Fatal(sb.err)
                /\ UNCHANGED <<changed_any, change_notes, warn_notes, resi_locals>>
           ELSE /\ proxies_start' = sb.i
                /\ proxy_groups_start' = sb.j
                /\ proxies_section' = r.text
                /\ changed_any' = (changed_any \/ r.changed)
                /\ change_notes' = NoteIf(change_notes, r.changed,
                                          "resi: ensured residential proxy in proxies:")
                /\ all_nodes_best' = sel.candidates
                /\ warn_notes' = NoteIf(warn_notes, sel.warn # "", sel.warn)
                /\ IF proxy_groups_end < 0
                   THEN Fatal(ERR_NO_RULES) /\ UNCHANGED proxy_groups_section
                   ELSE /\ proxy_groups_section' = Slice(text, sb.j, proxy_groups_end + 1)
                        /\ pc' = "resi_groups"
                        /\ UNCHANGED err
                /\ UNCHANGED ns_before
    /\ UNCHANGED <<invocation, new_text, disk, compat, original, text, outcome, msg>>

\* patch_file, lines 1199-1207: the generated dialer group
ResiGroups ==
    /\ pc = "resi_groups"
    /\ LET items == IF ENABLE_ALL_NODES_BEST
                    THEN <<<<GROUP_ALL_NODES_BEST,
                             render_group_all_nodes_best_with_nodes(all_nodes_best)>>>>
                    ELSE <<>>
           r == ensure_many_in_section_list(proxy_groups_section, items, "  ")
       IN  /\ proxy_groups_section' = r.text
           /\ changed_any' = (changed_any \/ r.changed)
           /\ change_notes' = NoteIf(change_notes, r.changed, "resi: ensured required proxy-groups")
    /\ pc' = "resi_ns"
    /\ UNCHANGED <<invocation, new_text, disk, compat, original, text, warn_notes, proxies_start,
                   proxy_groups_start, proxies_section, all_nodes_best, ns_before, outcome, msg, err>>

\* lines 1224-1229: the result of the try once the five calls have returned
node_select_result(ns_name, r1, rm1, rm2, e2) ==
    [text |-> e2.text,
     changed |-> (r1.changed \/ rm1.changed \/ rm2.changed),
     notes |-> NoteIf(NoteIf(<<>>, r1.changed,
                             "resi: appended residential node into " \o ns_name),
                      rm1.changed \/ rm2.changed,
                      "resi: removed legacy resi groups (dialer selector / residential outlet)"),
     err |-> ""]

\* lines 1222-1223: the two _remove_node_select_entry calls
node_select_entries(ns_name, r1, rm1, rm2) ==
    node_select_result(
        ns_name, r1, rm1, rm2,
        remove_node_select_entry(
            remove_node_select_entry(rm2.text, ns_name, GROUP_DIALER_SELECTOR).text,
            ns_name, GROUP_ONECLICK))

\* lines 1220-1221: the two _remove_group_by_name calls
node_select_legacy(ns_name, r1, rm1) ==
    node_select_entries(ns_name, r1, rm1, remove_group_by_name(rm1.text, GROUP_ONECLICK))

\* lines 1218-1229, the body of the try: [text, changed, notes, err]
node_select_update(section_text, ns_name) ==
    IF ensure_node_select_contains(section_text, ns_name, RESI_PROXY.name).err # ""
    THEN [text |-> section_text, changed |-> FALSE, notes |-> <<>>,
          err |-> ensure_node_select_contains(section_text, ns_name, RESI_PROXY.name).err]
    ELSE node_select_legacy(
             ns_name,
             ensure_node_select_contains(section_text, ns_name, RESI_PROXY.name),
             remove_group_by_name(
                 ensure_node_select_contains(section_text, ns_name, RESI_PROXY.name).text,
                 GROUP_DIALER_SELECTOR))

\* patch_file, lines 1209-1231: the user-facing group
ResiNodeSelect ==
    /\ pc = "resi_ns"
    /\ ns_before' = proxy_groups_section
    /\ IF truthy_env(cfg.skip_ns)
       THEN /\ warn_notes' = Append(warn_notes, WARN_NS_SKIP)
            /\ UNCHANGED <<proxy_groups_section, changed_any, change_notes>>
       ELSE \E ns_name \in {resolve_node_select_group_name(proxy_groups_section, cfg)} :
                IF ns_name = ""
                THEN /\ warn_notes' = Append(warn_notes, WARN_NS_UNDETECTED)
                     /\ UNCHANGED <<proxy_groups_section, changed_any, change_notes>>
                ELSE \E u \in {node_select_update(proxy_groups_section, ns_name)} :
                     /\ proxy_groups_section' = u.text
                     /\ changed_any' = (changed_any \/ u.changed)
                     /\ change_notes' = change_notes \o u.notes
                     /\ warn_notes' = NoteIf(warn_notes, u.err # "", WARN_NS_FAILED \o u.err)
    /\ pc' = "resi_splice"
    /\ UNCHANGED <<invocation, new_text, disk, compat, original, text, proxies_start,
                   proxy_groups_start, proxies_section, all_nodes_best, outcome, msg, err>>

\* lines 1233-1240 (sanitized: 308-315): [text, err]
splice_sections(t, p_start, pg_start0, p_section, pg_section) ==
    LET t1 == Slice(t, 0, p_start) \o p_section \o SliceFrom(t, pg_start0)
        pg_start == Find(t1, "proxy-groups:\n", p_start)
        pg_end == find_rules(t1, pg_start)
    IN  IF pg_start < 0 \/ pg_end < 0
        THEN [text |-> t1, err |-> ERR_RELOCATE]
        ELSE [text |-> Slice(t1, 0, pg_start) \o pg_section \o SliceFrom(t1, pg_end + 1),
              err |-> ""]

\* patch_file, lines 1233-1240 (sanitized: 308-315): put the two sections back
ResiSplice ==
    /\ pc = "resi_splice"
    /\ LET s == splice_sections(text, proxies_start, proxy_groups_start,
                                proxies_section, proxy_groups_section)
       IN  /\ text' = s.text
           /\ IF s.err # "" THEN Fatal(s.err) ELSE pc' = "report" /\ UNCHANGED err
    /\ UNCHANGED <<invocation, new_text, disk, compat, original, changed_any, change_notes,
                   warn_notes, resi_locals, outcome, msg>>

\* patch_file of the sanitized script, lines 269-270: the top-level port
SanPort ==
    /\ pc = "san_patch"
    /\ pc' = "san_proxies"
    /\ \E r \in {ensure_toplevel_port(text, TOPLEVEL_PORT)} :
           /\ text' = r.text
           /\ changed_any' = (changed_any \/ r.changed)
    /\ UNCHANGED <<invocation, new_text, disk, compat, original, change_notes, warn_notes,
                   resi_locals, outcome, msg, err>>

\* patch_file of the sanitized script, lines 272-289: the two sections, the relay's
\* proxy block, the nodes of the relay group
SanProxies ==
    /\ pc = "san_proxies"
    /\ \E sb \in {section_bounds(text, "proxies:\n", "proxy-groups:\n")} :
           IF sb.err # ""
           THEN /\ Fatal(sb.err)
                /\ UNCHANGED <<changed_any, resi_locals>>
           ELSE \E r \in {ensure_in_section_list(Slice(text, sb.i, sb.j), RESI_PROXY.name,
                                                 san_render_proxy_block, "  ")} :
                \E proxy_groups_end \in {find_rules(text, sb.j)} :
                    /\ proxies_start' = sb.i
                    /\ proxy_groups_start' = sb.j
                    /\ proxies_section' = r.text
                    /\ changed_any' = (changed_any \/ r.changed)
                    /\ all_nodes_best' =
                           resolve_us_nodes(extract_proxy_names_from_proxies_section(r.text))
                    /\ IF proxy_groups_end < 0
                       THEN Fatal(ERR_NO_RULES) /\ UNCHANGED proxy_groups_section
                       ELSE /\ proxy_groups_section' = Slice(text, sb.j, proxy_groups_end + 1)
                            /\ pc' = "san_groups"
                            /\ UNCHANGED err
                    /\ UNCHANGED ns_before
    /\ UNCHANGED <<invocation, new_text, disk, compat, original, text, change_notes, warn_notes, outcome, msg>>

\* patch_file of the sanitized script, lines 291-303: the relay group, the outlet group
SanGroups ==
    /\ pc = "san_groups"
    /\ pc' = "san_ns"
    /\ \E g1 \in {ensure_in_section_list(proxy_groups_section, GROUP_US_RELAY,
                                         render_group_us_relay_with_nodes(all_nodes_best), "  ")} :
       \E g2 \in {ensure_in_section_list(g1.text, SAN_GROUP_ONECLICK,
                                         san_render_group_oneclick, "  ")} :
           /\ proxy_groups_section' = g2.text
           /\ changed_any' = (changed_any \/ g1.changed \/ g2.changed)
    /\ UNCHANGED <<invocation, new_text, disk, compat, original, text, change_notes, warn_notes,
                   proxies_start, proxy_groups_start, proxies_section, all_nodes_best,
                   ns_before, outcome, msg, err>>

\* patch_file of the sanitized script, lines 305-306: the user-facing group
SanNodeSelect ==
    /\ pc = "san_ns"
    /\ ns_before' = proxy_groups_section
    /\ \E r \in {ensure_node_select_contains(proxy_groups_section, GROUP_NODE_SELECT_DEFAULT,
                                             SAN_GROUP_ONECLICK)} :
           IF r.err # ""
           THEN /\ Fatal(r.err)
                /\ UNCHANGED <<proxy_groups_section, changed_any>>
           ELSE /\ proxy_groups_section' = r.text
                /\ changed_any' = (changed_any \/ r.changed)
                /\ pc' = "resi_splice"
                /\ UNCHANGED err
    /\ UNCHANGED <<invocation, new_text, disk, compat, original, text, change_notes, warn_notes,
                   proxies_start, proxy_groups_start, proxies_section, all_nodes_best, outcome, msg>>

\* _format_features
format_features(features) ==
    LET picked == SelectSeq(<<FEATURE_RESI, FEATURE_BYPASS>>, LAMBDA f : f \in features)
    IN  IF picked = <<>> THEN "(none)" ELSE JoinWith(",", picked)

\* "\n<head>:\n- " + "\n- ".join(notes), if there are notes
notes_text(head, notes) ==
    IF notes = <<>> THEN "" ELSE "\n" \o head \o ":\n- " \o JoinWith("\n- ", notes)

\* the message of lines 1243-1246 without the warnings
msg_nochange_plain ==
    IF variant = "full"
    THEN "No changes needed. (features=" \o format_features(cfg.features) \o ")"
    ELSE "No changes needed (already patched)."

\* the message of lines 1243-1246 (sanitized: 318)
msg_nochange ==
    IF variant = "full"
    THEN "No changes needed. (features=" \o format_features(cfg.features) \o ")"
         \o notes_text("Warnings", warn_notes)
    ELSE "No changes needed (already patched)."

\* the message of lines 1248-1253 (sanitized: 320)
msg_dry_run ==
    IF variant = "full"
    THEN "Dry-run: changes would be applied. (features=" \o format_features(cfg.features) \o ")"
         \o notes_text("Planned changes", change_notes) \o notes_text("Warnings", warn_notes)
    ELSE "Dry-run: changes would be applied (not written)."

\* the message of lines 1260-1265 (sanitized: 327)
msg_patched ==
    IF variant = "full"
    THEN "Patched successfully. (features=" \o format_features(cfg.features) \o ")"
         \o notes_text("Applied changes", change_notes) \o notes_text("Warnings", warn_notes)
    ELSE "Patched successfully."

\* the arguments main calls patch_file with: dry_run=True, backup=False for the
\* preview (line 1320), else as the command line says (line 1391)
dry_run == cfg.preview # "" \/ cfg.dry_run
backup == cfg.preview = "" /\ cfg.backup

\* where main goes on when patch_file has returned (lines 1319-1321, 1391-1393)
after_patch_file == IF cfg.preview # "" THEN "preview" ELSE "done"

\* patch_file, lines 1242-1253 (sanitized: 317-320): what to report, whether to write
Report ==
    /\ pc = "report"
    /\ IF ~changed_any
       THEN pc' = after_patch_file /\ outcome' = "nochange" /\ msg' = msg_nochange
       ELSE IF dry_run
       THEN pc' = after_patch_file /\ outcome' = "dryrun" /\ msg' = msg_dry_run
       ELSE pc' = (IF backup THEN "backup" ELSE "write") /\ UNCHANGED <<outcome, msg>>
    /\ UNCHANGED <<invocation, new_text, disk, compat, original, text, changed_any, change_notes,
                   warn_notes, resi_locals, err>>

\* lines 1255-1258 with the backup taken of the patched text
WriteBackup_patched_text ==
    /\ pc = "backup"
    /\ \E same_second \in BOOLEAN :
           backups' = IF same_second /\ backups # <<>>
                      THEN [backups EXCEPT ![Len(backups)] = text]
                      ELSE Append(backups, text)
    /\ wrote' = Append(wrote, "backup")
    /\ pc' = "write"
    /\ UNCHANGED <<invocation, new_text, file, compat, original, text, changed_any, change_notes,
                   warn_notes, resi_locals, outcome, msg, err>>

\* patch_file, lines 1255-1258 (sanitized: 322-325): the backup file.  Its name
\* ends in the time of day to the second: a run in the same second as the run
\* before it writes over that run's backup.
WriteBackup ==
    /\ pc = "backup"
    /\ \E same_second \in BOOLEAN :
           backups' = IF same_second /\ backups # <<>>
                      THEN [backups EXCEPT ![Len(backups)] = original]
                      ELSE Append(backups, original)
    /\ wrote' = Append(wrote, "backup")
    /\ pc' = "write"
    /\ UNCHANGED <<invocation, new_text, file, compat, original, text, changed_any, change_notes,
                   warn_notes, resi_locals, outcome, msg, err>>

\* patch_file, lines 1259-1265 (sanitized: 326-327): the document
WriteDoc ==
    /\ pc = "write"
    /\ file' = text
    /\ wrote' = Append(wrote, "doc")
    /\ outcome' = "written"
    /\ msg' = msg_patched
    /\ pc' = "done"
    /\ UNCHANGED <<invocation, new_text, backups, compat, original, text, changed_any,
                   change_notes, warn_notes, resi_locals, err>>

\* main, lines 1319-1333: the preview starts from the text main read; the bypass steps
PreviewBypass ==
    /\ pc = "preview"
    /\ IF FEATURE_BYPASS \notin cfg.features
       THEN new_text' = original
       ELSE
         \E t1 \in {IF compat = "mihomo"
                    THEN ensure_tun_route_exclude(original, BYPASS_IP_CIDRS).text
                    ELSE original} :
         \E t2 \in {ensure_dns_fakeip_filter(t1, BYPASS_FAKEIP_FILTER).text} :
         \E dns_list \in {parse_csv_env_list(cfg.internal_dns, cfg.system_dns)} :
         \E t3 \in {IF compat = "mihomo"
                    THEN ensure_dns_nameserver_policy(t2, BYPASS_FAKEIP_FILTER, dns_list).text
                    ELSE t2} :
           new_text' = ensure_rules_bypass(t3).text
    /\ pc' = "preview_resi"
    /\ UNCHANGED <<invocation, disk, compat, original, text, changed_any, change_notes,
                   warn_notes, resi_locals, outcome, msg, err>>

\* main, lines 1334-1389: the relay chain of the preview, with the update of the
\* user-facing group outside any try, then the printing
PreviewResi ==
    /\ pc = "preview_resi"
    /\ IF FEATURE_RESI \notin cfg.features
       THEN pc' = "done" /\ UNCHANGED <<new_text, err>>
       ELSE IF compat # "mihomo"
       THEN Fatal(ERR_RESI_COMPAT) /\ UNCHANGED new_text
       ELSE
         \E t1 \in {ensure_toplevel_port(new_text, TOPLEVEL_PORT).text} :
         \E sb \in {section_bounds(t1, "proxies:\n", "proxy-groups:\n")} :
           IF sb.err # ""
           THEN Fatal(sb.err) /\ new_text' = t1
           ELSE
             \E p_cut \in {Slice(t1, sb.i, sb.j)} :
             \E p_section \in {ensure_in_section_list(p_cut, RESI_PROXY.name,
                                                      render_proxy_block, "  ").text} :
             \E all_proxy_names \in {extract_proxy_names_from_proxies_section(p_section)} :
             \E best \in {select_dialer_candidates(all_proxy_names, cfg).candidates} :
             \E proxy_groups_end \in {find_rules(t1, sb.j)} :
               IF proxy_groups_end < 0
               THEN Fatal(ERR_NO_RULES) /\ new_text' = t1
               ELSE
                 \E g_cut \in {Slice(t1, sb.j, proxy_groups_end + 1)} :
                 \E items \in {IF ENABLE_ALL_NODES_BEST
                               THEN <<<<GROUP_ALL_NODES_BEST,
                                        render_group_all_nodes_best_with_nodes(best)>>>>
                               ELSE <<>>} :
                 \E g \in {ensure_many_in_section_list(g_cut, items, "  ").text} :
                 \E ns_name \in {IF truthy_env(cfg.skip_ns) THEN ""
                                 ELSE resolve_node_select_group_name(g, cfg)} :
                 \E u \in {IF ns_name = ""
                           THEN [text |-> g, changed |-> FALSE, notes |-> <<>>, err |-> ""]
                           ELSE node_select_update(g, ns_name)} :
                   IF u.err # ""
                   THEN Fatal(u.err) /\ new_text' = t1
                   ELSE
                     \E s \in {splice_sections(t1, sb.i, sb.j, p_section, u.text)} :
                       /\ new_text' = s.text
                       /\ IF s.err # "" THEN Fatal(s.err)
                          ELSE pc' = "done" /\ UNCHANGED err
    /\ UNCHANGED <<invocation, disk, compat, original, text, changed_any, change_notes,
                   warn_notes, resi_locals, outcome, msg>>

(***************************************************************************)
(* The documents and invocations the model starts from                     *)
(***************************************************************************)

\* bounds of the model
MaxNodes == 3     \* ordinary nodes in the proxies section: 0..MaxNodes
MaxRuns == 2      \* invocations in a row on the same file

\* names of the ordinary nodes, in document order
NodePool == <<"United States 02", "HK 01", "US 01", "JP 01", "UM Meiguo 05", "SG 01">>

\* k nodes of the pool, after the first off
Nodes(k, off) == SubSeq(NodePool, off + 1, off + k)

\* a node block in the layout the locator knows, or as a one-line flow mapping
NodeBlock(n) == "  -\n    name: '" \o n \o "'\n    type: ss\n"
NodeFlow(n) == "  - {name: " \o n \o ", type: ss}\n"

NodesText(k, off, style) ==
    IF style = "block" THEN Join(MapSeq(Nodes(k, off), NodeBlock))
    ELSE Join(MapSeq(Nodes(k, off), NodeFlow))

\* the relay's proxy block as the script of this variant renders it
RelayBlock(v) == IF v = "full" THEN render_proxy_block ELSE san_render_proxy_block

\* a relay block an older run left behind (other credentials)
StaleRelayBlock ==
    "  -\n    name: '" \o RESI_PROXY.name \o "'\n    type: socks5\n    server: OLD\n"

\* body of the proxies section
ProxiesBody(v, d) ==
    LET nodes == NodesText(d.k, d.off, d.style)
        relay == IF d.relay = "stale" THEN StaleRelayBlock ELSE RelayBlock(v)
    IN  (CASE d.relay = "absent" -> nodes
           [] d.relay = "first" -> relay \o nodes
           [] OTHER -> nodes \o relay)
        \o d.ptrail

\* the names the scripts read from the proxies section of the document
VisibleNodes(d) == IF d.style = "block" THEN Nodes(d.k, d.off) ELSE <<>>

GroupBlock(name, type, members) ==
    "  -\n    name: '" \o name \o "'\n    type: " \o type \o "\n    proxies:\n" \o Join(members)

\* the user-facing group, its member list in one of several states
SelectBlock(v, d) ==
    LET entry == IF v = "full" THEN RESI_PROXY.name ELSE SAN_GROUP_ONECLICK
        old == <<"      - 'Auto'\n", "      - DIRECT\n">>
        members == CASE d.sel = "plain" -> old
                     [] d.sel = "has" -> <<MemberLine(entry)>> \o old
                     [] d.sel = "legacy" -> <<"      - 'Auto'\n", MemberLine(GROUP_ONECLICK),
                                              "      - DIRECT\n", MemberLine(GROUP_DIALER_SELECTOR)>>
                     [] d.sel = "haslegacy" -> <<MemberLine(entry), MemberLine(GROUP_ONECLICK)>> \o old
                     [] d.sel = "dquote" -> <<"      - 'Auto'\n", "      - \"" \o entry \o "\"\n">>
                     [] d.sel = "bare" -> <<"      - 'Auto'\n", "      - " \o entry \o "\n">>
                     [] OTHER -> old
    IN  CASE d.sel = "none" -> GroupBlock("Other", "select", old)
          [] d.sel = "flow" -> "  - {name: " \o GROUP_NODE_SELECT_DEFAULT \o ", type: select, proxies: [DIRECT]}\n"
          [] d.sel = "nolist" -> "  -\n    name: '" \o GROUP_NODE_SELECT_DEFAULT \o "'\n    type: select\n"
          [] d.sel = "inline" -> "  - type: select\n    name: '" \o GROUP_NODE_SELECT_DEFAULT
                                 \o "'\n    proxies:\n" \o Join(old)
          [] d.sel = "proxy" -> GroupBlock(NODE_SELECT_FALLBACKS[3], "select", old)
          [] d.sel = "fallbacks" -> GroupBlock(NODE_SELECT_FALLBACKS[4], "select", old)
                                    \o GroupBlock(NODE_SELECT_FALLBACKS[3], "select", old)
          [] OTHER -> GroupBlock(GROUP_NODE_SELECT_DEFAULT, "select", members)

\* the generated groups as the script of this variant renders them for the document
GeneratedGroups(v, d) ==
    IF v = "full"
    THEN render_group_all_nodes_best_with_nodes(VisibleNodes(d))
    ELSE san_render_group_oneclick
         \o render_group_us_relay_with_nodes(resolve_us_nodes(VisibleNodes(d)))

StaleGeneratedGroups(v) ==
    IF v = "full" THEN GroupBlock(GROUP_ALL_NODES_BEST, "url-test", <<"      - 'Gone'\n">>)
    ELSE GroupBlock(GROUP_US_RELAY, "url-test", <<"      - 'Gone'\n">>)

LegacyGroups ==
    GroupBlock(GROUP_ONECLICK, "select", <<MemberLine(RESI_PROXY.name), "      - DIRECT\n">>)
    \o GroupBlock(GROUP_DIALER_SELECTOR, "select", <<"      - DIRECT\n">>)

AutoGroup == GroupBlock("Auto", "url-test", <<"      - 'HK 01'\n">>)

\* body of the proxy-groups section
GroupsBody(v, d) ==
    (CASE d.gen = "first" -> GeneratedGroups(v, d) \o SelectBlock(v, d) \o AutoGroup
       [] d.gen = "last" -> SelectBlock(v, d) \o AutoGroup \o GeneratedGroups(v, d)
       [] d.gen = "stale" -> SelectBlock(v, d) \o StaleGeneratedGroups(v)
       [] d.gen = "relay" ->
            SelectBlock(v, d)
            \o render_group_us_relay_with_nodes(resolve_us_nodes(VisibleNodes(d)))
            \o AutoGroup
       [] d.gen = "outlet" -> SelectBlock(v, d) \o san_render_group_oneclick \o AutoGroup
       [] d.gen = "legacyfirst" -> LegacyGroups \o SelectBlock(v, d) \o AutoGroup
       [] OTHER -> SelectBlock(v, d) \o AutoGroup)
    \o (IF d.legacy THEN LegacyGroups ELSE "")
    \o d.gtrail

\* the document of parameters d for the script v
BuildDoc(v, d) ==
    IF d.layout = "swapped"
    THEN d.pre \o "proxy-groups:\n" \o GroupsBody(v, d)
         \o "proxies:\n" \o ProxiesBody(v, d) \o d.rules
    ELSE d.pre \o "proxies:\n" \o ProxiesBody(v, d)
         \o "proxy-groups:\n" \o GroupsBody(v, d) \o d.rules

PRE_CLASSIC == "mixed-port: 7890\n"
PRE_MIHOMO == "port: 7891\nexternal-controller: :9090\n"
PRE_WRONG_PORT == "port: 7890\nmode: rule\n"
PRE_GEODATA == "mixed-port: 7890\ngeodata-mode: true\n"
PRE_DNS == "mixed-port: 7890\ndns:\n  enable: true\n  fake-ip-filter:\n    - '*.lan'\nport: 7891\n"
PRE_TUN == "port: 7891\nsniffer:\n  enable: true\ntun:\n  enable: true\n  stack: gvisor\ndns:\n  enable: true\n"
\* tun blocks: the exclusion list as a block list, as a flow list, and absent
\* from a block that names a longer address in another list
PRE_TUN_REX == "port: 7891\ntun:\n  enable: true\n  route-exclude-address:\n    - 192.168.0.0/16\n  stack: gvisor\ndns:\n  enable: true\n"
PRE_TUN_INLINE == "port: 7891\ntun:\n  enable: true\n  route-exclude-address: [192.168.0.0/16]\ndns:\n  enable: true\n"
PRE_TUN_ELSEWHERE == "port: 7891\ntun:\n  enable: true\n  route-address:\n    - 110.0.0.0/8\ndns:\n  enable: true\n"
RULES == "rules:\n  - MATCH,DIRECT\n"
RULES_FLUSH == "rules:\n- GEOIP,CN,DIRECT\n- MATCH,DIRECT\n"

\* a document already in the state the run wants, and an invocation with the defaults
BaseDoc == [pre |-> PRE_MIHOMO, layout |-> "normal", k |-> 2, off |-> 0, style |-> "block",
            relay |-> "first", ptrail |-> "", sel |-> "has", gen |-> "first",
            legacy |-> FALSE, gtrail |-> "", rules |-> RULES]
BaseCfg == [dry_run |-> FALSE, backup |-> TRUE, preview |-> "", features |-> {FEATURE_RESI},
            compat_arg |-> "auto", dialer_mode |-> "all", dialer_regex |-> "",
            skip_ns |-> "", ns_env |-> "", internal_dns |-> "", system_dns |-> <<>>]

Trails == {"", "\n", "  # keep\n"}

\* the same document before any run: no relay, no generated group, relay not a member
Fresh(d) == [d EXCEPT !.relay = "absent", !.gen = "absent", !.sel = "plain"]

\* the proxies section varies
DocsProxies ==
    LET D == {[BaseDoc EXCEPT !.k = k, !.style = st, !.relay = r, !.ptrail = t] :
                k \in 0..MaxNodes, st \in {"block", "flow"},
                r \in {"absent", "first", "last", "stale"}, t \in Trails}
    IN  D \cup {[d EXCEPT !.gen = "absent", !.sel = "plain"] : d \in D}

DocsProxiesSan ==
    {d \in DocsProxies : d.ptrail # "  # keep\n" /\ d.relay # "stale" /\ d.gen = "first"}

\* other nodes of the pool, in the layout the scripts read
DocsNodes ==
    {[Fresh(BaseDoc) EXCEPT !.k = k, !.off = off] :
        k \in 1..MaxNodes, off \in 1..(Len(NodePool) - MaxNodes)}

\* the proxy-groups section varies
DocsGroups ==
    {[BaseDoc EXCEPT !.sel = s, !.gen = g, !.legacy = l, !.gtrail = t] :
        s \in {"plain", "has", "legacy", "haslegacy", "none", "flow", "nolist"},
        g \in {"first", "last", "stale", "absent"}, l \in BOOLEAN, t \in Trails}

DocsGroupsSan ==
    {d \in DocsGroups : ~d.legacy /\ d.sel \in {"plain", "has", "none"}}

\* the entry is a member already, double-quoted or unquoted
DocsScalar ==
    {[BaseDoc EXCEPT !.sel = s, !.gen = g] : s \in {"dquote", "bare"}, g \in {"first", "absent"}}

\* the legacy groups stand right above the user-facing group, which is written
\* with its first field on the dash line or in the layout the locator knows
DocsLegacyFirst ==
    {[Fresh(BaseDoc) EXCEPT !.sel = s, !.gen = "legacyfirst", !.gtrail = t] :
        s \in {"inline", "plain", "legacy"}, t \in Trails}

\* documents for the sanitized script with one of its two generated groups
DocsOneOfTwo ==
    {[BaseDoc EXCEPT !.gen = g, !.sel = s, !.k = k] :
        g \in {"relay", "outlet"}, s \in {"plain", "has"}, k \in {0, 2}}

\* the preamble, the layout and the rules section vary
DocsShape ==
    LET D == {[BaseDoc EXCEPT !.pre = p, !.rules = u] :
                p \in {PRE_CLASSIC, PRE_MIHOMO, PRE_WRONG_PORT, PRE_DNS, PRE_TUN},
                u \in {RULES, ""}}
    IN  D \cup {Fresh(d) : d \in D}

DocsSwapped == {[d EXCEPT !.layout = "swapped"] : d \in {BaseDoc, Fresh(BaseDoc)}}

\* the command lines: features and dialect, preview and backup switches
CfgArgs ==
    {[BaseCfg EXCEPT !.features = f, !.compat_arg = c] :
        f \in SUBSET {FEATURE_RESI, FEATURE_BYPASS},
        c \in {"auto", "mihomo", "classic", "meta"}}

\* the dialect argument as typed: upper case, blanks around it, empty
CfgCompat ==
    {[BaseCfg EXCEPT !.compat_arg = c] :
        c \in {"", "AUTO", " Mihomo ", "Classic", "clash", "mihomo "}}
DocsCompat ==
    LET D == {[BaseDoc EXCEPT !.pre = p] :
                p \in {PRE_CLASSIC, PRE_GEODATA, PRE_MIHOMO, PRE_TUN, PRE_TUN_REX}}
    IN  D \cup {Fresh(d) : d \in D}

CfgSwitches ==
    {[BaseCfg EXCEPT !.dry_run = dr, !.backup = b, !.features = f] :
        dr \in BOOLEAN, b \in BOOLEAN,
        f \in {{FEATURE_RESI}, {FEATURE_RESI, FEATURE_BYPASS}}}
    \cup {[BaseCfg EXCEPT !.dry_run = dr, !.skip_ns = "1"] : dr \in BOOLEAN}

\* the environments: dialer selection and user-facing group
CfgEnv ==
    {[BaseCfg EXCEPT !.dialer_mode = m, !.dialer_regex = x, !.skip_ns = k, !.ns_env = n] :
        m \in {"all", "regex", "best"}, x \in {"", "(", "hk", "zz"}, k \in {"", "1"},
        n \in {"", "Auto"}}

\* the user-facing group: the override names and the groups of the document
CfgNs == {[BaseCfg EXCEPT !.ns_env = n] : n \in {"", "Auto", "Nope", " PROXY "}}
DocsNs ==
    {[Fresh(BaseDoc) EXCEPT !.sel = s] : s \in {"plain", "none", "proxy", "fallbacks", "inline"}}

\* the previews, on documents with and without a user-facing group to update
CfgPreview ==
    {[BaseCfg EXCEPT !.preview = p, !.features = f, !.internal_dns = "10.0.0.2"] :
        p \in {"diff", "changelog"},
        f \in {{FEATURE_RESI}, {FEATURE_BYPASS}, {FEATURE_RESI, FEATURE_BYPASS}}}
DocsPreview ==
    {[BaseDoc EXCEPT !.sel = s, !.gen = g, !.pre = p] :
        s \in {"plain", "has", "legacy", "none", "nolist"}, g \in {"first", "absent"},
        p \in {PRE_MIHOMO, PRE_TUN}}
    \cup {[BaseDoc EXCEPT !.rules = ""], [BaseDoc EXCEPT !.layout = "swapped"]}

\* the environments: DNS servers of the bypass domains
CfgDns ==
    {[BaseCfg EXCEPT !.internal_dns = i, !.system_dns = y, !.compat_arg = c,
                     !.features = {FEATURE_BYPASS}] :
        i \in {"", "10.0.0.2", "system"}, y \in {<<>>, <<"10.0.0.2", "1.1.1.1">>},
        c \in {"auto", "classic"}}

Scenarios ==
    {[variant |-> "full", doc |-> d, cfg |-> BaseCfg] :
        d \in DocsProxies \cup DocsGroups \cup DocsSwapped}
    \cup {[variant |-> "sanitized", doc |-> d, cfg |-> BaseCfg] :
            d \in DocsProxiesSan \cup DocsGroupsSan \cup DocsShape \cup DocsSwapped
                    \cup DocsNodes \cup DocsOneOfTwo}
    \cup {[variant |-> "full", doc |-> d, cfg |-> c] : d \in DocsShape, c \in CfgArgs}
    \cup {[variant |-> v, doc |-> d, cfg |-> c] :
            v \in {"full", "sanitized"}, d \in {BaseDoc, Fresh(BaseDoc)}, c \in CfgSwitches}
    \cup {[variant |-> "full", doc |-> d, cfg |-> c] :
            d \in {BaseDoc, Fresh(BaseDoc)}, c \in CfgEnv}
    \cup {[variant |-> "full", doc |-> d, cfg |-> c] : d \in DocsNs, c \in CfgNs}
    \cup {[variant |-> v, doc |-> d, cfg |-> BaseCfg] :
            v \in {"full", "sanitized"}, d \in DocsScalar}
    \cup {[variant |-> "full", doc |-> d, cfg |-> BaseCfg] : d \in DocsLegacyFirst}
    \cup {[variant |-> "full", doc |-> d, cfg |-> c] : d \in DocsPreview, c \in CfgPreview}
    \cup {[variant |-> "full", doc |-> d, cfg |-> c] : d \in DocsCompat, c \in CfgCompat}
    \cup {[variant |-> "full", doc |-> Fresh([BaseDoc EXCEPT !.pre = PRE_GEODATA]), cfg |-> c] :
            c \in CfgArgs}
    \cup {[variant |-> "full", doc |-> d, cfg |-> c] :
            d \in {[BaseDoc EXCEPT !.pre = p, !.rules = u] :
                     p \in {PRE_DNS, PRE_TUN}, u \in {RULES, RULES_FLUSH}},
            c \in CfgDns}
    \cup {[variant |-> "full", doc |-> [BaseDoc EXCEPT !.pre = p], cfg |-> c] :
            p \in {PRE_TUN_REX, PRE_TUN_INLINE, PRE_TUN_ELSEWHERE}, c \in CfgDns}

Init ==
    \E s \in Scenarios :
        /\ variant = s.variant
        /\ cfg = s.cfg
        /\ file = BuildDoc(s.variant, s.doc)
    /\ backups = <<>>
    /\ wrote = <<>>
    /\ pc = "main"
    /\ run = 1
    /\ prior = <<>>
    /\ disk0 = [file |-> file, backups |-> <<>>]
    /\ compat = ""
    /\ original = ""
    /\ text = ""
    /\ changed_any = FALSE
    /\ change_notes = <<>>
    /\ warn_notes = <<>>
    /\ proxies_start = -1
    /\ proxy_groups_start = -1
    /\ proxies_section = ""
    /\ proxy_groups_section = ""
    /\ all_nodes_best = <<>>
    /\ ns_before = ""
    /\ outcome = ""
    /\ msg = ""
    /\ new_text = ""
    /\ err = ""

\* the user runs the script again on the same file, with the same settings
Rerun ==
    /\ pc \in {"done", "fatal"}
    /\ run < MaxRuns
    /\ run' = run + 1
    /\ prior' = Append(prior, IF pc = "fatal" THEN "fatal" ELSE outcome)
    /\ disk0' = [file |-> file, backups |-> backups]
    /\ pc' = "main"
    /\ wrote' = <<>>
    /\ compat' = ""
    /\ original' = ""
    /\ text' = ""
    /\ changed_any' = FALSE
    /\ change_notes' = <<>>
    /\ warn_notes' = <<>>
    /\ proxies_start' = -1
    /\ proxy_groups_start' = -1
    /\ proxies_section' = ""
    /\ proxy_groups_section' = ""
    /\ all_nodes_best' = <<>>
    /\ ns_before' = ""
    /\ outcome' = ""
    /\ msg' = ""
    /\ new_text' = ""
    /\ err' = ""
    /\ UNCHANGED <<variant, cfg, file, backups>>

Next ==
    \/ Main
    \/ PatchStart
    \/ BypassTun
    \/ BypassFilter
    \/ BypassPolicy
    \/ BypassRules
    \/ ResiGate
    \/ ResiProxies
    \/ ResiGroups
    \/ ResiNodeSelect
    \/ ResiSplice
    \/ SanPort
    \/ SanProxies
    \/ SanGroups
    \/ SanNodeSelect
    \/ Report
    \/ WriteBackup
    \/ WriteDoc
    \/ PreviewBypass
    \/ PreviewResi
    \/ Rerun

Spec == Init /\ [][Next]_vars

(***************************************************************************)
(* What the properties speak of                                            *)
(***************************************************************************)

\* a is a subsequence of b: the elements of a occur in b, in the same order
RECURSIVE IsSubseq(_, _)
IsSubseq(a, b) ==
    IF a = <<>> THEN TRUE
    ELSE IF b = <<>> THEN FALSE
    ELSE IF Head(a) = Head(b) THEN IsSubseq(Tail(a), Tail(b))
    ELSE IsSubseq(a, Tail(b))

\* the lines at the indexes of keep, in order
RECURSIVE PickLines(_, _, _)
PickLines(lines, keep, i) ==
    IF i > Len(lines) THEN <<>>
    ELSE (IF i \in keep THEN <<lines[i]>> ELSE <<>>) \o PickLines(lines, keep, i + 1)

\* a list item as YAML reads it: its dash line and the lines indented under it;
\* the index of the last line of the item whose dash line is lines[i]
RECURSIVE ItemLast(_, _)
ItemLast(lines, i) ==
    IF i < Len(lines) /\ StartsWith(lines[i + 1], "    ") THEN ItemLast(lines, i + 1) ELSE i

\* the dash lines of the items that declare the name
ItemsNamed(lines, name) ==
    {i \in 1..Len(lines) :
        /\ is_item_start(lines[i], "  ")
        /\ \E j \in (i + 1)..ItemLast(lines, i) : NameLineMatches(lines[j], name)}

\* the indexes of the lines of those items
ItemIndexes(lines, name) ==
    UNION {i..ItemLast(lines, i) : i \in ItemsNamed(lines, name)}

\* the lines of the first item that declares the name (<<>> if there is none)
ItemLines(lines, name) ==
    IF ItemsNamed(lines, name) = {} THEN <<>>
    ELSE LET i == CHOOSE k \in ItemsNamed(lines, name) : \A m \in ItemsNamed(lines, name) : k <= m
         IN  SubSeq(lines, i, ItemLast(lines, i))

IsMemberLine(ln) == StartsWith(ln, "      - ")
MemberLines(item) == SelectSeq(item, IsMemberLine)
NonMemberLines(item) == LET Other(ln) == ~IsMemberLine(ln) IN SelectSeq(item, Other)

\* the proxies section and the proxy-groups section of a document, as lines
\* (<<>> when the document lacks one of the three headers)
ProxiesLinesOf(t) ==
    LET sb == section_bounds(t, "proxies:\n", "proxy-groups:\n")
    IN  IF sb.err # "" THEN <<>> ELSE split_lines_keepends(Slice(t, sb.i, sb.j))

GroupsLinesOf(t) ==
    LET sb == section_bounds(t, "proxies:\n", "proxy-groups:\n")
    IN  IF sb.err # "" \/ find_rules(t, sb.j) < 0 THEN <<>>
        ELSE split_lines_keepends(Slice(t, sb.j, find_rules(t, sb.j) + 1))

\* the relay chain is part of this run
ResiRun == variant = "sanitized" \/ FEATURE_RESI \in cfg.features

\* the names this run uses: the entry it wants in the user-facing group, the
\* group it generates for the relay to dial through, the user-facing group
WantedEntry == IF variant = "full" THEN RESI_PROXY.name ELSE SAN_GROUP_ONECLICK
DialerGroup == IF variant = "full" THEN GROUP_ALL_NODES_BEST ELSE GROUP_US_RELAY
UserGroupIn(groups_lines) ==
    IF variant = "full" THEN resolve_node_select_group_name(Join(groups_lines), cfg)
    ELSE GROUP_NODE_SELECT_DEFAULT
LegacyNames == IF variant = "full" THEN {GROUP_ONECLICK, GROUP_DIALER_SELECTOR} ELSE {}

\* the dialer group block the run wants, rendered for the nodes of the document
WantedDialerBlock(t) ==
    LET names == extract_proxy_names_from_proxies_section(Join(ProxiesLinesOf(t)))
    IN  IF variant = "full"
        THEN render_group_all_nodes_best_with_nodes(select_dialer_candidates(names, cfg).candidates)
        ELSE render_group_us_relay_with_nodes(resolve_us_nodes(names))

\* every element the relay chain wants is in the document t, in canonical form
ResiConverged(t) ==
    LET P == ProxiesLinesOf(t)
        G == GroupsLinesOf(t)
        ns == ItemLines(G, UserGroupIn(G))
    IN  /\ G # <<>>
        /\ InSeq("port: " \o ToString(TOPLEVEL_PORT) \o "\n", split_lines_keepends(t))
        /\ Join(ItemLines(P, RESI_PROXY.name))
             = (IF variant = "full" THEN render_proxy_block ELSE san_render_proxy_block)
        /\ Join(ItemLines(G, DialerGroup)) = WantedDialerBlock(t)
        /\ variant = "sanitized"
             => Join(ItemLines(G, SAN_GROUP_ONECLICK)) = san_render_group_oneclick
        /\ InSeq(MemberLine(WantedEntry), ns)
        /\ \A n \in LegacyNames :
             /\ ItemsNamed(G, n) = {}
             /\ \A i \in 1..Len(ns) : ~IsEntryLine(ns[i], n)

\* every element the bypass feature wants for the dialect c is in the document t
BypassConverged(t, c) ==
    LET lines == split_lines_keepends(t)
        tun == find_top_level_block(lines, "tun")
        dns == find_top_level_block(lines, "dns")
        tun_text == Join(ListSlice(lines, tun[1], tun[2]))
        dns_text == Join(ListSlice(lines, dns[1], dns[2]))
        servers == parse_csv_env_list(cfg.internal_dns, cfg.system_dns)
    IN  /\ c = "mihomo" =>
              /\ tun[1] >= 0
              /\ \A i \in 1..Len(BYPASS_IP_CIDRS) : Contains(tun_text, DashItem(BYPASS_IP_CIDRS[i]))
        /\ dns[1] >= 0 =>
              \A i \in 1..Len(BYPASS_FAKEIP_FILTER) :
                  /\ Contains(dns_text, DashItem(BYPASS_FAKEIP_FILTER[i]))
                  /\ (c = "mihomo" /\ servers # <<>>)
                       => Contains(dns_text, "\"" \o BYPASS_FAKEIP_FILTER[i] \o "\": ")
        /\ \A i \in 1..Len(BYPASS_IP_CIDRS) :
              Contains(t, "- IP-CIDR," \o BYPASS_IP_CIDRS[i] \o ",DIRECT,no-resolve\n")
        /\ \A i \in 1..Len(BYPASS_DOMAINS) :
              Contains(t, "- DOMAIN-SUFFIX," \o BYPASS_DOMAINS[i] \o ",DIRECT\n")

\* the document t needs nothing from the enabled features
Converged(t) ==
    /\ ResiRun => ResiConverged(t)
    /\ (variant = "full" /\ FEATURE_BYPASS \in cfg.features) => BypassConverged(t, compat)

\* C1: idempotence of a full run.  A run on a document that already holds every
\* element the enabled features want, in canonical form, returns changed = False,
\* computes a text byte-identical to the input and writes neither the document
\* nor a backup.
C1_IdempotentOnConverged ==
    (pc = "done" /\ Converged(original))
        => (outcome = "nochange" /\ text = original /\ wrote = <<>> /\ file = original)

\* C2: convergence in one run.  A second run, with the same settings, on the
\* document a successful run wrote returns changed = False and leaves the
\* document byte-identical.
C2_SecondRunIsFixedPoint ==
    (run >= 2 /\ prior[run - 1] = "written" /\ pc = "done")
        => (outcome = "nochange" /\ text = original /\ file = original)

\* the indexes of the lines of the document a relay-chain run manages: the
\* top-level port line, the relay's proxy block, the generated and the legacy
\* group blocks, the member list of the user-facing group
ManagedIndexes(lines) ==
    LET names == {RESI_PROXY.name, DialerGroup} \cup LegacyNames
                 \cup (IF variant = "full" THEN {} ELSE {SAN_GROUP_ONECLICK})
        user == UserGroupIn(GroupsLinesOf(Join(lines)))
    IN  {i \in 1..Len(lines) : StartsWith(lines[i], "port: ")}
        \cup UNION {ItemIndexes(lines, n) : n \in names}
        \cup {i \in ItemIndexes(lines, user) : IsMemberLine(lines[i])}

UnmanagedLines(t) ==
    LET lines == split_lines_keepends(t)
    IN  PickLines(lines, (1..Len(lines)) \ ManagedIndexes(lines), 1)

\* C3: unmanaged content is preserved.  In a relay-chain run every line of the
\* input outside the port line, the relay proxy block, the dialer group block,
\* the legacy group blocks and the member list of the user-facing group is in
\* the output, unchanged and in the same order, and the text from the rules
\* header onward is byte-identical.
C3_UnmanagedPreserved ==
    (pc = "done" /\ ResiRun /\ FEATURE_BYPASS \notin cfg.features)
        => /\ IsSubseq(UnmanagedLines(original), split_lines_keepends(text))
           /\ EndsWith(text, SliceFrom(original, find_rules(original, 0) + 1))

\* the item of the user-facing group as the node-select step found it and left it
UserGroupBefore ==
    LET G == split_lines_keepends(ns_before) IN ItemLines(G, UserGroupIn(G))
UserGroupAfter ==
    LET G == split_lines_keepends(ns_before)
    IN  ItemLines(split_lines_keepends(proxy_groups_section), UserGroupIn(G))

\* a member line that names one of the legacy groups the step cleans up
IsLegacyEntry(ln) == \E n \in LegacyNames : IsEntryLine(ln, n)
OwnMemberLines(item) ==
    LET Own(ln) == IsMemberLine(ln) /\ ~IsLegacyEntry(ln) IN SelectSeq(item, Own)

\* C5: no empty routing group is ever emitted.  In every document a relay-chain
\* run produces, the generated dialer group has at least one member entry under
\* its proxies line, whatever nodes the proxies section defines.
C5_DialerGroupHasMember ==
    (pc = "done" /\ ResiRun /\ outcome = "written")
        => MemberLines(ItemLines(GroupsLinesOf(file), DialerGroup)) # <<>>

\* every pattern of US_NODE_PATTERNS is a literal prefix followed by one star:
\* a name matches it when it starts with the prefix
IsUsName(n) ==
    \E i \in 1..Len(US_NODE_PATTERNS) :
        StartsWith(n, Slice(US_NODE_PATTERNS[i], 0, Len(US_NODE_PATTERNS[i]) - 1))
WantedUsName(n) == IsUsName(n) /\ n # RESI_PROXY.name

\* C6: pattern resolver result.  _resolve_us_nodes returns exactly the names that
\* match at least one pattern, in the order of the input whatever the order of
\* the patterns, without the relay's own name; if there is none it returns the
\* fallback list.  The result is never empty.
C6_UsNodesResolved ==
    pc = "san_groups" =>
        LET names == extract_proxy_names_from_proxies_section(proxies_section)
            res == all_nodes_best
        IN  /\ res # <<>>
            /\ IF \E j \in 1..Len(names) : WantedUsName(names[j])
               THEN /\ IsSubseq(res, names)
                    /\ \A i \in 1..Len(res) : WantedUsName(res[i])
                    /\ \A j \in 1..Len(names) : WantedUsName(names[j]) => InSeq(names[j], res)
                    /\ Len(res) = Cardinality({j \in 1..Len(names) : WantedUsName(names[j])})
               ELSE res = US_NODES_FALLBACK

\* the resolver kept two names, in document order, the later pattern's match
\* first, skipped a name between them and left out the relay
C6_Witness ==
    /\ pc = "san_groups"
    /\ InSeq(RESI_PROXY.name, extract_proxy_names_from_proxies_section(proxies_section))
    /\ InSeq("HK 01", extract_proxy_names_from_proxies_section(proxies_section))
    /\ all_nodes_best = <<"United States 02", "US 01">>

\* the run is past the dialect gate of the relay chain
PastResiGate ==
    pc \notin {"main", "patch_file", "bypass", "bypass_filter", "bypass_policy",
               "bypass_rules", "resi"}

\* the current invocation has written nothing
NothingWritten == file = disk0.file /\ backups = disk0.backups /\ wrote = <<>>

\* C7: dialect gating of the relay chain.  When the relay-chain feature is
\* enabled and the resolved dialect is not mihomo, patch_file ends in a fatal
\* error and writes neither the document nor a backup, whether or not the bypass
\* feature is enabled too and has computed changes in the same run.
C7_ResiNeedsMihomo ==
    (variant = "full" /\ FEATURE_RESI \in cfg.features /\ compat \notin {"", "mihomo"}
     /\ PastResiGate)
        => (pc = "fatal" /\ err = ERR_RESI_COMPAT /\ NothingWritten)

\* the gate stopped a run in which the bypass feature had changed the text
C7_Witness ==
    /\ pc = "fatal"
    /\ err = ERR_RESI_COMPAT
    /\ FEATURE_BYPASS \in cfg.features
    /\ changed_any
    /\ text # original

\* the tun block of a document, as lines (<<>> if it has none)
TunBlockOf(t) ==
    LET lines == split_lines_keepends(t)
        tun == find_top_level_block(lines, "tun")
    IN  IF tun[1] < 0 THEN <<>> ELSE ListSlice(lines, tun[1], tun[2])

DnsBlockOf(t) ==
    LET lines == split_lines_keepends(t)
        dns == find_top_level_block(lines, "dns")
    IN  IF dns[1] < 0 THEN <<>> ELSE ListSlice(lines, dns[1], dns[2])

HasRulesHeader(t) ==
    LET lines == split_lines_keepends(t)
    IN  \E i \in 1..Len(lines) : IsKeyHeader(lines[i], "rules")

\* C8: graceful degradation of the bypass feature.  With only the bypass feature
\* enabled on a classic-dialect document, patch_file does not fail, warns that
\* the tun route exclusion was skipped, creates or modifies no tun block, and
\* still applies the fake-ip filter patterns (where the document has a dns
\* block) and the DIRECT rules (where it has a rules section).
C8_BypassDegradesOnClassic ==
    (variant = "full" /\ cfg.features = {FEATURE_BYPASS} /\ compat = "classic")
        => /\ pc # "fatal"
           /\ pc = "done" =>
                /\ InSeq(WARN_TUN_SKIPPED, warn_notes)
                /\ TunBlockOf(text) = TunBlockOf(original)
                /\ DnsBlockOf(text) # <<>> =>
                     \A i \in 1..Len(BYPASS_FAKEIP_FILTER) :
                         Contains(Join(DnsBlockOf(text)), BYPASS_FAKEIP_FILTER[i])
                /\ HasRulesHeader(text) =>
                     /\ \A i \in 1..Len(BYPASS_IP_CIDRS) :
                          Contains(text, "- IP-CIDR," \o BYPASS_IP_CIDRS[i] \o ",DIRECT,no-resolve\n")
                     /\ \A i \in 1..Len(BYPASS_DOMAINS) :
                          Contains(text, "- DOMAIN-SUFFIX," \o BYPASS_DOMAINS[i] \o ",DIRECT\n")

\* a classic run of the bypass feature alone wrote a document that has a tun
\* block, a dns block and a rules section
C8_Witness ==
    /\ variant = "full" /\ cfg.features = {FEATURE_BYPASS} /\ compat = "classic"
    /\ pc = "done" /\ outcome = "written"
    /\ TunBlockOf(original) # <<>>
    /\ DnsBlockOf(original) # <<>>
    /\ ~Contains(Join(DnsBlockOf(original)), BYPASS_FAKEIP_FILTER[1])
    /\ HasRulesHeader(original)

\* C9: no partial write on failure.  A run of patch_file that ends in a fatal
\* error leaves the document file with its original content and creates no
\* backup file: every error is raised before the first write.
C9_NoWriteOnFatal == pc = "fatal" => NothingWritten

\* the run had computed changes when the missing rules section stopped it
C9_Witness ==
    /\ pc = "fatal"
    /\ err = ERR_NO_RULES
    /\ changed_any
    /\ file = original

\* k is the offset of the first occurrence of p in t at or after from
FirstAt(t, p, k, from) ==
    /\ k >= from
    /\ OccursAt(t, p, k)
    /\ \A m \in from..(k - 1) : ~OccursAt(t, p, m)

\* p does not occur in t at or after from
NoneFrom(t, p, from) == \A m \in from..Len(t) : ~OccursAt(t, p, m)

\* C10: section extraction.  _section_bounds returns (i, j) with i the first
\* occurrence of the opening header and j the first occurrence of the closing
\* header after the end of the opening header; if a header is absent, or the
\* closing header occurs only before the opening one, it raises the
\* missing-section error, and the relay-chain run is fatal.
C10_SectionBounds ==
    /\ pc \in {"resi_groups", "resi_ns", "resi_splice", "san_groups", "san_ns"} =>
           /\ FirstAt(text, "proxies:\n", proxies_start, 0)
           /\ FirstAt(text, "proxy-groups:\n", proxy_groups_start, proxies_start + Len("proxies:\n"))
    /\ (pc = "fatal" /\ err = "Missing section header: " \o Repr("proxies:\n")) =>
           NoneFrom(text, "proxies:\n", 0)
    /\ (pc = "fatal" /\ err = "Missing section header: " \o Repr("proxy-groups:\n")) =>
           \E i \in 0..Len(text) :
               /\ FirstAt(text, "proxies:\n", i, 0)
               /\ NoneFrom(text, "proxy-groups:\n", i + Len("proxies:\n"))

\* the closing header stands only before the opening one: the run is fatal
C10_Witness ==
    /\ pc = "fatal"
    /\ err = "Missing section header: " \o Repr("proxy-groups:\n")
    /\ Contains(text, "proxy-groups:\n")
    /\ Contains(text, "proxies:\n")

\* a list item of a section as YAML reads it: a dash at the indentation of the
\* section's items, alone on its line or followed by the first field
YamlItemStart(ln) == RStripNl(ln) = "  -" \/ StartsWith(ln, "  - ")

\* the field `name` of an item, on the dash line or on a line of its own
NameField(ln, name) ==
    \E q \in {"'", "\""} :
        RStripNl(ln) \in {"  - name: " \o q \o name \o q, "    name: " \o q \o name \o q}

\* the dash lines (as 0-based indexes) of the items whose name field is name
GroupsDeclaring(lines, name) ==
    {i \in 0..(Len(lines) - 1) :
        /\ YamlItemStart(lines[i + 1])
        /\ \E j \in (i + 1)..ItemLast(lines, i + 1) : NameField(lines[j], name)}

\* the name the resolution order picks among the groups the section declares
FirstDeclaredName(lines, c) ==
    LET order == <<Strip(c.ns_env), GROUP_NODE_SELECT_DEFAULT>> \o NODE_SELECT_FALLBACKS
        hits == {k \in 1..Len(order) :
                    order[k] # "" /\ GroupsDeclaring(lines, order[k]) # {}}
    IN  IF hits = {} THEN "" ELSE order[CHOOSE k \in hits : \A h \in hits : k <= h]

\* C11: user-facing group resolution order.  _resolve_node_select_group_name
\* returns the override name if the routing-groups section declares a group of
\* that name, otherwise the default name, otherwise the first declared name of
\* the fallback list, otherwise nothing; and when it returns a name, the block
\* locator used for the following mutation finds a block that starts at the
\* dash line of a group of that name.
C11_NodeSelectResolved ==
    (variant = "full" /\ pc = "resi_ns") =>
        LET lines == split_lines_keepends(proxy_groups_section)
            name == resolve_node_select_group_name(proxy_groups_section, cfg)
            b == find_list_item_block(lines, 1, "  ", name)
        IN  /\ name = FirstDeclaredName(lines, cfg)
            /\ name # "" => b[1] \in GroupsDeclaring(lines, name)

\* the resolution order alone
C11_ResolutionOrder ==
    (variant = "full" /\ pc = "resi_ns") =>
        resolve_node_select_group_name(proxy_groups_section, cfg)
            = FirstDeclaredName(split_lines_keepends(proxy_groups_section), cfg)

\* the user-facing group the node-select step should pick in a section
UserGroupDeclared(lines) ==
    IF variant = "full" THEN FirstDeclaredName(lines, cfg)
    ELSE IF GroupsDeclaring(lines, GROUP_NODE_SELECT_DEFAULT) # {}
         THEN GROUP_NODE_SELECT_DEFAULT ELSE ""

\* no group of that name has a member list
NoMemberList(lines, name) ==
    \A i \in GroupsDeclaring(lines, name) :
        \A j \in (i + 1)..ItemLast(lines, i + 1) : ~StartsWith(lines[j], "    proxies:")

\* patch_file raised (a failure of the preview comes after patch_file returned)
PatchFileFailed == pc = "fatal" /\ outcome = ""

\* the node-select step took place in this run and found no group it could update
NodeSelectStuck ==
    LET lines == split_lines_keepends(ns_before)
    IN  /\ ResiRun
        /\ ns_before # ""
        /\ ~truthy_env(cfg.skip_ns)
        /\ UserGroupDeclared(lines) = "" \/ NoMemberList(lines, UserGroupDeclared(lines))

\* what the run does then: no failure, the section as it was, one warning, and
\* the port line, the relay block and the dialer group in place
NodeSelectSkipped ==
    /\ ~PatchFileFailed
    /\ proxy_groups_section = ns_before
    /\ Cardinality({k \in DOMAIN warn_notes :
                      \/ StartsWith(warn_notes[k], "resi: could not detect node-select group")
                      \/ StartsWith(warn_notes[k], "resi: failed to update node-select group")}) = 1
    /\ Contains(text, "port: " \o ToString(TOPLEVEL_PORT) \o "\n")
    /\ Contains(proxies_section, RelayBlock(variant))
    /\ Contains(proxy_groups_section,
                IF variant = "full" THEN render_group_all_nodes_best_with_nodes(all_nodes_best)
                ELSE render_group_us_relay_with_nodes(all_nodes_best))

\* C12: an unresolvable user-facing group is skipped, not fatal.  When no
\* candidate name resolves to an existing group, or the resolved group cannot be
\* updated, the relay-chain run does not fail, changes nothing in the
\* routing-groups section in that step, records exactly one warning for it, and
\* still applies the port, relay block and dialer group steps.
C12_UnresolvedGroupSkipped == NodeSelectStuck => NodeSelectSkipped

\* the same for the full script alone
C12_FullScriptSkips == (variant = "full" /\ NodeSelectStuck) => NodeSelectSkipped

\* the full script met a document without a user-facing group
C12_FullScriptWitness ==
    variant = "full" /\ NodeSelectStuck /\ pc = "done" /\ outcome = "written"

\* C13: report outcome and writes agree.  A successful run of patch_file ends in
\* exactly one of three outcomes (no changes needed, dry-run, written); the
\* document is written if and only if the outcome is "written"; with dry-run
\* neither the document nor a backup is ever written; and every warning recorded
\* during the run is in the returned message, whatever the outcome.
C13_ReportAgreesWithWrites ==
    /\ pc = "done" =>
         /\ outcome \in {"nochange", "dryrun", "written"}
         /\ outcome = "nochange" <=> StartsWith(msg, "No changes needed")
         /\ outcome = "dryrun" <=> StartsWith(msg, "Dry-run: changes would be applied")
         /\ outcome = "written" <=> StartsWith(msg, "Patched successfully")
         /\ outcome = "nochange" <=> ~changed_any
         /\ outcome = "dryrun" <=> (changed_any /\ dry_run)
         /\ outcome = "written" <=> InSeq("doc", wrote)
         /\ outcome = "written" => file = text
         /\ outcome # "written" => NothingWritten
         /\ \A k \in DOMAIN warn_notes : Contains(msg, "\n- " \o warn_notes[k])
    /\ dry_run => NothingWritten

\* a run that had nothing to change returned a message with its warning
C13_Witness ==
    /\ pc = "done"
    /\ outcome = "nochange"
    /\ warn_notes # <<>>

\* C14: backup ordering and content.  In a run that overwrites the document with
\* backup enabled, the backup is written before the document and holds exactly
\* the content read at the start of the run, so whenever the document has been
\* overwritten a backup with the original content exists; a run that writes no
\* document, or whose backup is suppressed, writes no backup.
C14_BackupBeforeWrite ==
    /\ (backup /\ InSeq("doc", wrote)) =>
           /\ wrote = <<"backup", "doc">>
           /\ backups # <<>>
           /\ backups[Len(backups)] = disk0.file
           /\ original = disk0.file
    /\ InSeq("backup", wrote) =>
           /\ backup
           /\ pc \in {"write", "done"}
           /\ backups[Len(backups)] = disk0.file
           /\ pc = "write" => file = disk0.file
           /\ pc = "done" => outcome = "written"
    /\ (~backup \/ (pc = "done" /\ outcome \in {"nochange", "dryrun"})) =>
           backups = disk0.backups /\ ~InSeq("backup", wrote)

\* the second run in a row overwrote the document after taking its backup
C14_Witness ==
    /\ pc = "done"
    /\ run = 2
    /\ wrote = <<"backup", "doc">>
    /\ file # original
    /\ backups[Len(backups)] = original

\* the number of blanks a line starts with
Indent(ln) == Len(ln) - Len(LStrip(ln))

\* the entries of a block list as YAML reads them: an entry starts at a dash at
\* the indentation ind of the list, a line indented deeper continues the plain
\* scalar of the entry before it, any other line ends the list
RECURSIVE FoldEntries(_, _, _, _)
FoldEntries(lines, k, ind, acc) ==
    IF k > Len(lines) THEN acc
    ELSE IF Strip(lines[k]) = "" THEN FoldEntries(lines, k + 1, ind, acc)
    ELSE IF Indent(lines[k]) = ind /\ StartsWith(Strip(lines[k]), "- ")
    THEN FoldEntries(lines, k + 1, ind, Append(acc, Strip(SliceFrom(Strip(lines[k]), 2))))
    ELSE IF Indent(lines[k]) > ind /\ acc # <<>>
    THEN FoldEntries(lines, k + 1, ind,
                     [acc EXCEPT ![Len(acc)] = @ \o " " \o Strip(lines[k])])
    ELSE acc

\* the rules of a document: the entries of the list under its `rules:` header
RulesOf(t) ==
    LET lines == split_lines_keepends(t)
        heads == {i \in 1..Len(lines) : IsKeyHeader(lines[i], "rules")}
        h == CHOOSE i \in heads : \A j \in heads : i <= j
    IN  IF heads = {} \/ h = Len(lines) THEN <<>>
        ELSE FoldEntries(lines, h + 1, Indent(lines[h + 1]), <<>>)

\* the DIRECT rules the bypass feature wants, in the order of the configuration
WantedRules ==
    [i \in 1..Len(BYPASS_IP_CIDRS) |-> "IP-CIDR," \o BYPASS_IP_CIDRS[i] \o ",DIRECT,no-resolve"]
    \o [i \in 1..Len(BYPASS_DOMAINS) |-> "DOMAIN-SUFFIX," \o BYPASS_DOMAINS[i] \o ",DIRECT"]

\* a run of the bypass feature alone has ended on a document with a rules header
BypassRunDone ==
    variant = "full" /\ cfg.features = {FEATURE_BYPASS} /\ pc = "done" /\ HasRulesHeader(original)

\* C15: bypass rules placement.  When the bypass feature runs on a document with
\* a rules header and none of the wanted rules, the rules list of the result is
\* one IP-CIDR rule per configured CIDR, then one DOMAIN-SUFFIX rule per
\* configured domain, then the pre-existing rules with their text and order; a
\* second run inserts nothing.
C15_BypassRulesOnTop ==
    BypassRunDone =>
        /\ (\A i \in 1..Len(WantedRules) : ~InSeq(WantedRules[i], RulesOf(original)))
               => RulesOf(text) = WantedRules \o RulesOf(original)
        /\ (run >= 2 /\ prior[run - 1] = "written") => RulesOf(text) = RulesOf(original)

\* the same for the lines of the text, whatever YAML makes of them
C15_RuleLinesOnTop ==
    BypassRunDone =>
        LET rules0 == SliceFrom(original, find_rules(original, 0) + 1)
            rules1 == SliceFrom(text, find_rules(text, 0) + 1)
            head == "rules:\n"
            wanted == Join([i \in 1..Len(WantedRules) |-> "- " \o WantedRules[i] \o "\n"])
        IN  /\ ~Contains(rules0, WantedRules[1])
                => rules1 = head \o wanted \o SliceFrom(rules0, Len(head))
            /\ (run >= 2 /\ prior[run - 1] = "written") => rules1 = rules0

\* the rules list is flush with its header: there the rules come out as wanted
C15_FlushListWitness ==
    /\ BypassRunDone
    /\ EndsWith(original, RULES_FLUSH)
    /\ outcome = "written"
    /\ RulesOf(text) = WantedRules \o RulesOf(original)
    /\ Len(RulesOf(original)) = 2

\* the entries of the route-exclude-address list of the tun block of a document,
\* written as a block list or as a flow list
RouteExcludeEntries(t) ==
    LET b == TunBlockOf(t)
        keys == {i \in 1..Len(b) : StartsWith(b[i], "  route-exclude-address:")}
        k == CHOOSE i \in keys : \A j \in keys : i <= j
        rest == Strip(SliceFrom(Strip(b[k]), Len("route-exclude-address:")))
    IN  IF keys = {} THEN <<>>
        ELSE IF rest # ""
        THEN IF StartsWith(rest, "[") /\ EndsWith(rest, "]")
             THEN MapSeq(SplitComma(Slice(rest, 1, Len(rest) - 1)), Strip)
             ELSE <<>>
        ELSE IF k = Len(b) \/ Indent(b[k + 1]) <= 2 THEN <<>>
        ELSE FoldEntries(b, k + 1, Indent(b[k + 1]), <<>>)

\* a run with the bypass feature has ended on a document of the richer dialect
MihomoBypassDone ==
    variant = "full" /\ FEATURE_BYPASS \in cfg.features /\ compat = "mihomo" /\ pc = "done"

\* C16: route-exclusion postcondition.  After a bypass run on a richer-dialect
\* document every configured CIDR is an entry of the route-exclude-address list
\* of the tun block, the block being created when absent, also when the text of
\* the CIDR occurs elsewhere in the tun block.
C16_RouteExcluded ==
    MihomoBypassDone =>
        \A i \in 1..Len(BYPASS_IP_CIDRS) : InSeq(BYPASS_IP_CIDRS[i], RouteExcludeEntries(text))

\* the same for the tun blocks that do not hold the text of a CIDR elsewhere
C16_RouteExcludedUnlessNamed ==
    (MihomoBypassDone
     /\ \A i \in 1..Len(BYPASS_IP_CIDRS) :
            Contains(Join(TunBlockOf(original)), BYPASS_IP_CIDRS[i])
                => InSeq(BYPASS_IP_CIDRS[i], RouteExcludeEntries(original)))
        => \A i \in 1..Len(BYPASS_IP_CIDRS) : InSeq(BYPASS_IP_CIDRS[i], RouteExcludeEntries(text))

\* the CIDR joined a list that held another address, in block and in flow style
C16_BlockListWitness ==
    /\ MihomoBypassDone /\ outcome = "written"
    /\ RouteExcludeEntries(original) = <<"192.168.0.0/16">>
    /\ Contains(original, "route-exclude-address:\n")
    /\ RouteExcludeEntries(text) = <<"192.168.0.0/16", "10.0.0.0/8">>
C16_FlowListWitness ==
    /\ MihomoBypassDone /\ outcome = "written"
    /\ RouteExcludeEntries(original) = <<"192.168.0.0/16">>
    /\ Contains(original, "route-exclude-address: [")
    /\ RouteExcludeEntries(text) = <<"192.168.0.0/16", "10.0.0.0/8">>

\* a line without its blanks and quotes
RECURSIVE Bare(_)
Bare(s) ==
    IF Len(s) = 0 THEN ""
    ELSE (IF SubSeq(s, 1, 1) \in {" ", "\"", "'", "\n"} THEN "" ELSE SubSeq(s, 1, 1))
         \o Bare(SubSeq(s, 2, Len(s)))

\* the lines of the mapping under the nameserver-policy key of a dns block
PolicyLines(dns) ==
    LET keys == {i \in 1..Len(dns) : RStripNl(dns[i]) = "  nameserver-policy:"}
        k == CHOOSE i \in keys : \A j \in keys : i <= j
        last == CHOOSE m \in k..Len(dns) :
                    /\ \A j \in (k + 1)..m : StartsWith(dns[j], "    ")
                    /\ m < Len(dns) => ~StartsWith(dns[m + 1], "    ")
    IN  IF keys = {} THEN <<>> ELSE SubSeq(dns, k + 1, last)

\* the dns block maps the domain pattern to the servers
HasPolicy(dns, pattern, servers) ==
    \E i \in 1..Len(PolicyLines(dns)) :
        Bare(PolicyLines(dns)[i]) = pattern \o ":[" \o JoinWith(",", servers) \o "]"

\* the DNS servers the run was given for the bypass domains
InternalDns == parse_csv_env_list(cfg.internal_dns, cfg.system_dns)

\* C17: the DNS-server override takes effect.  After a bypass run on a
\* richer-dialect document that has a dns block, with a non-empty override list
\* and at least one bypass domain, the dns block has a nameserver-policy entry
\* mapping each bypass domain pattern to the override servers, in the normal
\* order of the run (fake-ip-filter step first).
C17_NameserverPolicySet ==
    (MihomoBypassDone /\ DnsBlockOf(original) # <<>> /\ InternalDns # <<>>
     /\ BYPASS_DOMAINS # <<>>)
        => \A i \in 1..Len(BYPASS_FAKEIP_FILTER) :
               HasPolicy(DnsBlockOf(text), BYPASS_FAKEIP_FILTER[i], InternalDns)

\* the nameserver-policy step applied to the document as it was read, before
\* the fake-ip-filter step, does set the entries
C17_PolicyStepAlone ==
    (MihomoBypassDone /\ DnsBlockOf(original) # <<>> /\ InternalDns # <<>>
     /\ ~Contains(Join(DnsBlockOf(original)), BYPASS_FAKEIP_FILTER[1]))
        => LET r == ensure_dns_nameserver_policy(original, BYPASS_FAKEIP_FILTER, InternalDns)
           IN  /\ r.changed
               /\ \A i \in 1..Len(BYPASS_FAKEIP_FILTER) :
                      HasPolicy(DnsBlockOf(r.text), BYPASS_FAKEIP_FILTER[i], InternalDns)

\* a run with two override servers on a document with a dns block
C17_PolicyStepWitness ==
    /\ MihomoBypassDone /\ DnsBlockOf(original) # <<>> /\ Len(InternalDns) = 2
    /\ ~Contains(Join(DnsBlockOf(original)), BYPASS_FAKEIP_FILTER[1])

(***************************************************************************)
(* C18: the preview against the run                                        *)
(***************************************************************************)
\* patch_file returned to the preview path of main
PreviewAfterRun == cfg.preview # "" /\ outcome # ""

\* C18: whenever patch_file succeeds on a document, the --diff / --changelog
\* preview succeeds too, writes nothing, and the text it computes for the diff
\* is the text patch_file computed
C18_PreviewEqualsRun ==
    PreviewAfterRun =>
        /\ pc # "fatal"
        /\ NothingWritten
        /\ (pc = "done" => new_text = text)

\* C18, the part the code keeps: a preview that ends has written nothing and
\* holds the text patch_file computed
C18_FinishedPreviewEqualsRun ==
    (PreviewAfterRun /\ pc = "done") => (NothingWritten /\ new_text = text)

\* a preview that changed the user-facing group, the generated group and the
\* bypass settings came to its end
C18_FinishedPreviewWitness ==
    /\ PreviewAfterRun
    /\ pc = "done"
    /\ outcome = "dryrun"
    /\ cfg.features = {FEATURE_RESI, FEATURE_BYPASS}
    /\ new_text # original

(***************************************************************************)
(* C19: the dialect                                                        *)
(***************************************************************************)
\* the text main read in this run holds marker m somewhere
MarkerIn(t, m) == \E k \in 0..Len(t) : OccursAt(t, m, k)
HasDialectMarker(t) ==
    \E m \in {"dialer-proxy:", "geodata-mode:", "sniffer:", "external-controller:"} :
        MarkerIn(t, m)

\* the dialect argument as _resolve_compat compares it
DialectArg == Lower(Strip(IF cfg.compat_arg = "" THEN "auto" ELSE cfg.compat_arg))

\* main of the full script has resolved the dialect, or has failed to
DialectResolved == variant = "full" /\ pc # "main"

\* C19: dialect classification.  With the argument auto the document is mihomo
\* if and only if its text holds one of the four marker tokens anywhere, and
\* classic otherwise; the argument mihomo or classic is the dialect whatever the
\* text holds; any other argument is rejected with the invalid-argument error
\* and nothing is written.  (The argument is compared trimmed and in lower
\* case, and an empty argument counts as auto.)
C19_DialectClassification ==
    DialectResolved =>
        /\ DialectArg = "auto" =>
             /\ compat = (IF HasDialectMarker(disk0.file) THEN "mihomo" ELSE "classic")
             /\ err # ERR_COMPAT
        /\ DialectArg \in {"mihomo", "classic"} => (compat = DialectArg /\ err # ERR_COMPAT)
        /\ DialectArg \notin {"auto", "mihomo", "classic"} =>
             (pc = "fatal" /\ err = ERR_COMPAT /\ compat = "" /\ NothingWritten)

\* detection found a marker other than the first one, in a document without
\* the first one
C19_Witness ==
    /\ DialectResolved
    /\ DialectArg = "auto"
    /\ compat = "mihomo"
    /\ ~MarkerIn(disk0.file, "dialer-proxy:")
    /\ MarkerIn(disk0.file, "geodata-mode:")

\* an explicit classic overrode the markers of the text
C19_OverrideWitness ==
    /\ DialectResolved
    /\ DialectArg = "classic"
    /\ compat = "classic"
    /\ HasDialectMarker(disk0.file)

\* an argument that names no dialect was rejected
C19_RejectWitness ==
    /\ DialectResolved
    /\ cfg.compat_arg = "clash"
    /\ pc = "fatal"

(***************************************************************************)
(* C20: where an absent block goes                                         *)
(***************************************************************************)
\* the two sections as patch_file cut them out of the text
ProxiesSectionBefore == Slice(text, proxies_start, proxy_groups_start)
GroupsSectionBefore ==
    Slice(text, proxy_groups_start, find_rules(text, proxy_groups_start) + 1)

\* the locator finds no block named name in the section
NotFound(section, name) ==
    find_list_item_block(split_lines_keepends(section), 1, "  ", name)[1] < 0

\* the locator finds the block named name, and it is the rendering already
FoundCanonical(section, name, block) ==
    LET lines == split_lines_keepends(section)
        b == find_list_item_block(lines, 1, "  ", name)
    IN  b[1] >= 0 /\ Join(ListSlice(lines, b[1], b[2])) = block

\* after is before with blocks put between the header line and everything else
InsertedOnTop(before, after, header, blocks) ==
    /\ StartsWith(before, header)
    /\ after = header \o blocks \o SliceFrom(before, Len(header))

\* C20: insertion position.  A desired block the locator does not find in its
\* section is inserted, in its canonical rendering, right after the header line
\* of the section and before every line that was there, and those lines keep
\* their text and order; of two blocks inserted by the sanitized script the one
\* ensured later comes first, and the lines that were there follow both.
C20_InsertedAfterHeader ==
    /\ (pc \in {"resi_groups", "san_groups"} /\ NotFound(ProxiesSectionBefore, RESI_PROXY.name))
         => InsertedOnTop(ProxiesSectionBefore, proxies_section, "proxies:\n",
                          RelayBlock(variant))
    /\ (pc = "resi_ns" /\ NotFound(GroupsSectionBefore, GROUP_ALL_NODES_BEST))
         => InsertedOnTop(GroupsSectionBefore, proxy_groups_section, "proxy-groups:\n",
                          render_group_all_nodes_best_with_nodes(all_nodes_best))
    /\ (pc = "san_ns" /\ NotFound(GroupsSectionBefore, GROUP_US_RELAY)
                      /\ NotFound(GroupsSectionBefore, SAN_GROUP_ONECLICK))
         => InsertedOnTop(GroupsSectionBefore, proxy_groups_section, "proxy-groups:\n",
                          san_render_group_oneclick
                          \o render_group_us_relay_with_nodes(all_nodes_best))
    /\ (pc = "san_ns" /\ NotFound(GroupsSectionBefore, SAN_GROUP_ONECLICK)
                      /\ FoundCanonical(GroupsSectionBefore, GROUP_US_RELAY,
                                        render_group_us_relay_with_nodes(all_nodes_best)))
         => InsertedOnTop(GroupsSectionBefore, proxy_groups_section, "proxy-groups:\n",
                          san_render_group_oneclick)
    /\ (pc = "san_ns" /\ NotFound(GroupsSectionBefore, GROUP_US_RELAY)
                      /\ FoundCanonical(GroupsSectionBefore, SAN_GROUP_ONECLICK,
                                        san_render_group_oneclick))
         => InsertedOnTop(GroupsSectionBefore, proxy_groups_section, "proxy-groups:\n",
                          render_group_us_relay_with_nodes(all_nodes_best))

\* the sanitized script inserted both generated groups above the groups of the
\* document
C20_Witness ==
    /\ pc = "san_ns"
    /\ NotFound(GroupsSectionBefore, GROUP_US_RELAY)
    /\ NotFound(GroupsSectionBefore, SAN_GROUP_ONECLICK)
    /\ ~NotFound(GroupsSectionBefore, GROUP_NODE_SELECT_DEFAULT)
    /\ ~NotFound(GroupsSectionBefore, "Auto")
    /\ proxy_groups_section # GroupsSectionBefore

\* the full script inserted the relay's proxy block above the nodes of the document
C20_ProxyWitness ==
    /\ variant = "full"
    /\ pc = "resi_groups"
    /\ NotFound(ProxiesSectionBefore, RESI_PROXY.name)
    /\ Len(split_lines_keepends(ProxiesSectionBefore)) > 2
    /\ proxies_section # ProxiesSectionBefore

\* the full script inserted the dialer group above the groups of the document
C20_GroupWitness ==
    /\ pc = "resi_ns"
    /\ NotFound(GroupsSectionBefore, GROUP_ALL_NODES_BEST)
    /\ ~NotFound(GroupsSectionBefore, "Auto")
    /\ proxy_groups_section # GroupsSectionBefore

\* the sanitized script inserted one generated group and found the other one
\* in canonical form
C20_OneOfTwoWitness ==
    /\ pc = "san_ns"
    /\ \/ /\ NotFound(GroupsSectionBefore, SAN_GROUP_ONECLICK)
          /\ FoundCanonical(GroupsSectionBefore, GROUP_US_RELAY,
                            render_group_us_relay_with_nodes(all_nodes_best))
       \/ /\ NotFound(GroupsSectionBefore, GROUP_US_RELAY)
          /\ FoundCanonical(GroupsSectionBefore, SAN_GROUP_ONECLICK,
                            san_render_group_oneclick)

(***************************************************************************)
(* C21: what an ensure call leaves behind                                  *)
(***************************************************************************)
\* a second _ensure_in_section_list call with the same arguments is a no-op
EnsureAgainNoOp(section, name, block) ==
    /\ ~ensure_in_section_list(section, name, block, "  ").changed
    /\ ensure_in_section_list(section, name, block, "  ").text = section

\* C21: ensure postcondition.  After _ensure_in_section_list (or
\* _ensure_many_in_section_list) has returned for a block name and rendering,
\* the block locator finds that name in the resulting section, the located
\* span is byte-identical to the rendering, and an immediate second call with
\* the same arguments returns changed=False and the same text.
C21_EnsurePostcondition ==
    /\ pc \in {"resi_groups", "san_groups"}
         => /\ FoundCanonical(proxies_section, RESI_PROXY.name, RelayBlock(variant))
            /\ EnsureAgainNoOp(proxies_section, RESI_PROXY.name, RelayBlock(variant))
    /\ pc = "resi_ns"
         => /\ FoundCanonical(proxy_groups_section, GROUP_ALL_NODES_BEST,
                              render_group_all_nodes_best_with_nodes(all_nodes_best))
            /\ EnsureAgainNoOp(proxy_groups_section, GROUP_ALL_NODES_BEST,
                               render_group_all_nodes_best_with_nodes(all_nodes_best))

\* C21, the part the code keeps: a block that was found but differed from its
\* rendering is replaced over its whole located span, after which the locator
\* finds the rendering and a second call changes nothing.
C21_ReplacedWhole ==
    /\ (pc \in {"resi_groups", "san_groups"}
          /\ ~NotFound(ProxiesSectionBefore, RESI_PROXY.name))
         => /\ FoundCanonical(proxies_section, RESI_PROXY.name, RelayBlock(variant))
            /\ EnsureAgainNoOp(proxies_section, RESI_PROXY.name, RelayBlock(variant))
    /\ (pc = "resi_ns" /\ ~NotFound(GroupsSectionBefore, GROUP_ALL_NODES_BEST))
         => /\ FoundCanonical(proxy_groups_section, GROUP_ALL_NODES_BEST,
                              render_group_all_nodes_best_with_nodes(all_nodes_best))
            /\ EnsureAgainNoOp(proxy_groups_section, GROUP_ALL_NODES_BEST,
                               render_group_all_nodes_best_with_nodes(all_nodes_best))

\* a stale relay block was found and replaced
C21_ReplacedWitness ==
    /\ pc \in {"resi_groups", "san_groups"}
    /\ ~NotFound(ProxiesSectionBefore, RESI_PROXY.name)
    /\ proxies_section # ProxiesSectionBefore

(***************************************************************************)
(* C22: the item boundaries of the block locator                           *)
(***************************************************************************)
\* a list marker line at this indentation, with or without content after the dash
IsMarkerLine(ln, dash_indent) ==
    is_item_start(ln, dash_indent) \/ StartsWith(ln, dash_indent \o "- ")

\* the offset of the first marker line at or after k, or the end of the section
NextMarker(lines, k, dash_indent) ==
    LET S == {j \in k..(Len(lines) - 1) : IsMarkerLine(lines[j + 1], dash_indent)}
    IN  IF S = {} THEN Len(lines) ELSE CHOOSE j \in S : \A m \in S : j <= m

\* the item that starts at offset i has the name field name, on its marker
\* line or on a line below it
ItemHasName(lines, i, dash_indent, name) ==
    \/ NameLineMatches(SliceFrom(lines[i + 1], Len(dash_indent) + 1), name)
    \/ \E j \in (i + 1)..(NextMarker(lines, i + 1, dash_indent) - 1) :
           NameLineMatches(lines[j + 1], name)

\* the half-open range of the first item with that name, items delimited by
\* the marker lines, or <<-1, -1>>
MarkerDelimitedBlock(lines, start_idx, dash_indent, name) ==
    LET S == {i \in start_idx..(Len(lines) - 1) :
                 /\ IsMarkerLine(lines[i + 1], dash_indent)
                 /\ ItemHasName(lines, i, dash_indent, name)}
    IN  IF S = {} THEN <<-1, -1>>
        ELSE LET i == CHOOSE k \in S : \A m \in S : k <= m
             IN  <<i, NextMarker(lines, i + 1, dash_indent)>>

LocatorAgrees(section, name) ==
    find_list_item_block(split_lines_keepends(section), 1, "  ", name)
      = MarkerDelimitedBlock(split_lines_keepends(section), 1, "  ", name)

\* every marker line of the section is a dash alone on its line
OnlyBareMarkers(section) ==
    \A i \in 1..Len(split_lines_keepends(section)) :
        IsMarkerLine(split_lines_keepends(section)[i], "  ")
          => is_item_start(split_lines_keepends(section)[i], "  ")

\* C22: block locator item boundaries.  _find_list_item_block treats every
\* line that is the indentation prefix followed by a dash, with or without
\* content after the dash, as the start of a list item, ends an item right
\* before the next such line or at the end of the section, and returns the
\* half-open range of the first item whose name field is the target (single-
\* or double-quoted), or not-found.
C22_LocatorBoundaries ==
    /\ pc \in {"resi_groups", "san_groups"}
         => /\ LocatorAgrees(ProxiesSectionBefore, RESI_PROXY.name)
            /\ LocatorAgrees(proxies_section, RESI_PROXY.name)
    /\ pc \in {"resi_ns", "san_ns"}
         => /\ LocatorAgrees(GroupsSectionBefore, DialerGroup)
            /\ LocatorAgrees(proxy_groups_section, DialerGroup)
            /\ LocatorAgrees(proxy_groups_section, GROUP_NODE_SELECT_DEFAULT)

\* C22, the part the code keeps: in a section whose marker lines are all a
\* dash alone on its line the locator returns the range of the first item with
\* the target name, up to the next marker line or the end of the section, or
\* not-found.
C22_BareMarkerBoundaries ==
    /\ (pc \in {"resi_groups", "san_groups"} /\ OnlyBareMarkers(ProxiesSectionBefore))
         => /\ LocatorAgrees(ProxiesSectionBefore, RESI_PROXY.name)
            /\ LocatorAgrees(proxies_section, RESI_PROXY.name)
    /\ (pc \in {"resi_ns", "san_ns"} /\ OnlyBareMarkers(GroupsSectionBefore))
         => /\ LocatorAgrees(GroupsSectionBefore, DialerGroup)
            /\ LocatorAgrees(proxy_groups_section, DialerGroup)
            /\ LocatorAgrees(proxy_groups_section, GROUP_NODE_SELECT_DEFAULT)

\* the locator found the relay block, which ends where the next block starts
C22_BareMarkerWitness ==
    /\ pc \in {"resi_groups", "san_groups"}
    /\ OnlyBareMarkers(ProxiesSectionBefore)
    /\ find_list_item_block(split_lines_keepends(ProxiesSectionBefore), 1, "  ",
                            RESI_PROXY.name)[1] >= 1
    /\ find_list_item_block(split_lines_keepends(ProxiesSectionBefore), 1, "  ",
                            RESI_PROXY.name)[2]
         < Len(split_lines_keepends(ProxiesSectionBefore))

(***************************************************************************)
(* C23: where the new member entry goes                                    *)
(***************************************************************************)
\* the wanted entry is a member of the item, in any of the three scalar forms
IsMember(item, name) == \E i \in 1..Len(item) : IsEntryLine(item[i], name)

\* the node-select step has added the wanted entry to the user-facing group
EntryAdded ==
    /\ pc = "resi_splice"
    /\ ~InSeq(MemberLine(WantedEntry), UserGroupBefore)
    /\ InSeq(MemberLine(WantedEntry), UserGroupAfter)

\* C23: appended entry position and count.  When the relay's name is not yet a
\* member of the user-facing group, one run adds exactly one member line for
\* it and that line stands after all pre-existing member entries of the group;
\* when it is already a member, no line is added.
C23_AppendedAtEnd ==
    /\ (EntryAdded /\ ~IsMember(UserGroupBefore, WantedEntry))
         => MemberLines(UserGroupAfter)
              = OwnMemberLines(UserGroupBefore) \o <<MemberLine(WantedEntry)>>
    /\ (pc = "resi_splice" /\ InSeq(MemberLine(WantedEntry), UserGroupBefore))
         => Len(MemberLines(UserGroupAfter)) <= Len(MemberLines(UserGroupBefore))

\* C23, the part the code keeps: the step adds exactly one member line for an
\* entry it does not find, as the first line under the proxies line of the
\* group, and adds none for an entry it finds in single-quoted form.
C23_OneEntryOnTop ==
    /\ (EntryAdded /\ ~IsMember(UserGroupBefore, WantedEntry))
         => MemberLines(UserGroupAfter)
              = <<MemberLine(WantedEntry)>> \o OwnMemberLines(UserGroupBefore)
    /\ (pc = "resi_splice" /\ InSeq(MemberLine(WantedEntry), UserGroupBefore))
         => Len(MemberLines(UserGroupAfter)) <= Len(MemberLines(UserGroupBefore))

\* the entry was added to a group that had two members
C23_AddedWitness ==
    /\ EntryAdded
    /\ ~IsMember(UserGroupBefore, WantedEntry)
    /\ Len(OwnMemberLines(UserGroupBefore)) >= 2

(***************************************************************************)
(* C24: the wanted entry is a member once                                  *)
(***************************************************************************)
\* the member lines of the item that name the entry, in any scalar form
EntryCount(item, name) == Cardinality({i \in 1..Len(item) : IsEntryLine(item[i], name)})

\* C24: duplicate-free membership.  After a run that updates the user-facing
\* group, the relay's name occurs exactly once among the member entries of
\* that group, whatever scalar form (single-quoted, double-quoted, unquoted) a
\* pre-existing entry for the same name used.
C24_EntryOnce ==
    (pc = "resi_splice" /\ IsMember(UserGroupAfter, WantedEntry))
        => EntryCount(UserGroupAfter, WantedEntry) = 1

\* C24, the part the code keeps: when the group held the entry in a quoted
\* form or not at all, it holds the entry exactly once after the update.
C24_QuotedEntryOnce ==
    (pc = "resi_splice" /\ IsMember(UserGroupAfter, WantedEntry)
       /\ ~InSeq("      - " \o WantedEntry \o "\n", UserGroupBefore))
        => EntryCount(UserGroupAfter, WantedEntry) = 1

\* the update found the entry in double quotes and left the list alone
C24_QuotedWitness ==
    /\ pc = "resi_splice"
    /\ InSeq("      - \"" \o WantedEntry \o "\"\n", UserGroupBefore)
    /\ UserGroupAfter = UserGroupBefore

(***************************************************************************)
(* _set_group_proxies_exact called on its own: a caller hands it a         *)
(* proxy-groups section, the name of a group and a list of entries, and    *)
(* calls it a second time with the same arguments                          *)
(***************************************************************************)
MaxEntries == 3   \* entries handed to _set_group_proxies_exact: 0..MaxEntries

EntryPool == {"DIRECT", "Auto", "HK 01"}
EntryLists == UNION {[1..n -> EntryPool] : n \in 0..MaxEntries}

\* the group the call is about, its member list in several states, among others
ExactGroup(members, more) ==
    "  -\n    name: '" \o GROUP_NODE_SELECT_DEFAULT \o "'\n    type: select\n    proxies:\n"
    \o Join(members) \o more
ExactSections ==
    {"proxy-groups:\n" \o g : g \in
        {ExactGroup(<<"      - 'Auto'\n", "      - DIRECT\n">>, "") \o AutoGroup,
         AutoGroup \o ExactGroup(<<"      - 'Auto'\n", "      - DIRECT\n">>, "    interval: 300\n"),
         AutoGroup \o ExactGroup(<<>>, "    interval: 300\n") \o LegacyGroups,
         ExactGroup(<<"      - \"HK 01\"\n", "      - Auto\n", "      - 'Gone'\n">>, ""),
         ExactGroup(<<"      - 'Auto'\n", "      # pinned\n", "      - 'Gone'\n">>, "") \o AutoGroup,
         "  -\n    name: '" \o GROUP_NODE_SELECT_DEFAULT \o "'\n    type: select\n" \o AutoGroup,
         AutoGroup}}

InitSetExact ==
    /\ variant = "full"
    /\ cfg \in {[BaseCfg EXCEPT !.ns_env = n] : n \in {"", "Auto", "Nope"}}
    /\ proxy_groups_section \in ExactSections
    /\ all_nodes_best \in EntryLists
    /\ pc = "set_exact"
    /\ file = ""
    /\ backups = <<>>
    /\ wrote = <<>>
    /\ run = 1
    /\ prior = <<>>
    /\ disk0 = [file |-> "", backups |-> <<>>]
    /\ compat = ""
    /\ original = ""
    /\ text = ""
    /\ changed_any = FALSE
    /\ change_notes = <<>>
    /\ warn_notes = <<>>
    /\ proxies_start = -1
    /\ proxy_groups_start = -1
    /\ proxies_section = ""
    /\ ns_before = ""
    /\ outcome = ""
    /\ msg = ""
    /\ new_text = ""
    /\ err = ""

\* section, changed = _set_group_proxies_exact(section, name, entries)
CallSetExact(next_pc) ==
    /\ ns_before' = proxy_groups_section
    /\ \E r \in {set_group_proxies_exact(proxy_groups_section, GROUP_NODE_SELECT(cfg),
                                         all_nodes_best)} :
           IF r.err # ""
           THEN Fatal(r.err) /\ UNCHANGED <<proxy_groups_section, changed_any>>
           ELSE /\ proxy_groups_section' = r.text
                /\ changed_any' = r.changed
                /\ pc' = next_pc
                /\ UNCHANGED err
    /\ UNCHANGED <<invocation, new_text, disk, compat, original, text, change_notes, warn_notes,
                   proxies_start, proxy_groups_start, proxies_section, all_nodes_best, outcome, msg>>

SetGroupProxies == pc = "set_exact" /\ CallSetExact("set_again")
SetGroupProxiesAgain == pc = "set_again" /\ CallSetExact("set_done")

NextSetExact ==
    \/ SetGroupProxies
    \/ SetGroupProxiesAgain

SpecSetExact == InitSetExact /\ [][NextSetExact]_vars

(***************************************************************************)
(* C25: set-exactly membership                                             *)
(***************************************************************************)
\* the entries without the repetitions, in the order of their first occurrence
FirstOccurrences(entries) ==
    PickLines(entries, {i \in 1..Len(entries) : \A j \in 1..(i - 1) : entries[j] # entries[i]}, 1)

\* the member lines for the entries: DIRECT unquoted, the others single-quoted
EntryLinesFor(entries) ==
    [i \in 1..Len(entries) |->
        IF entries[i] = "DIRECT" THEN "      - DIRECT\n" ELSE MemberLine(entries[i])]

\* the group of the call as the call found it and left it, and the section around it
ExactBefore == ItemLines(split_lines_keepends(ns_before), GROUP_NODE_SELECT(cfg))
ExactAfter == ItemLines(split_lines_keepends(proxy_groups_section), GROUP_NODE_SELECT(cfg))
OutsideItem(section, name) ==
    PickLines(split_lines_keepends(section),
              (1..Len(split_lines_keepends(section)))
                 \ ItemIndexes(split_lines_keepends(section), name), 1)

\* C25: set-exactly membership.  For a group that exists with a member list
\* and any list of entries, after _set_group_proxies_exact the member entries
\* of the group are exactly the given entries without repetitions, in the
\* order of first occurrence (DIRECT unquoted, the others single-quoted), no
\* pre-existing member entry survives, the other lines of the block and the
\* other blocks are unchanged, and a second call with the same entries returns
\* changed=False and the same text.
C25_SetExactly ==
    /\ pc = "set_again"
         => /\ MemberLines(ExactAfter) = EntryLinesFor(FirstOccurrences(all_nodes_best))
            /\ NonMemberLines(ExactAfter) = NonMemberLines(ExactBefore)
            /\ OutsideItem(proxy_groups_section, GROUP_NODE_SELECT(cfg))
                 = OutsideItem(ns_before, GROUP_NODE_SELECT(cfg))
            /\ changed_any <=> proxy_groups_section # ns_before
    /\ pc = "set_done" => (~changed_any /\ proxy_groups_section = ns_before)

\* the member lines of the item stand in one run right under its proxies line
MembersInOneRun(item) ==
    \A i \in 1..Len(item) :
        IsMemberLine(item[i]) => (IsMemberLine(item[i - 1]) \/ IsProxiesLine(item[i - 1]))

\* C25, the part the code keeps: the same for a group whose member lines
\* follow its proxies line without another line between them.
C25_SetExactlyOneRun ==
    /\ (pc = "set_again" /\ MembersInOneRun(ExactBefore))
         => /\ MemberLines(ExactAfter) = EntryLinesFor(FirstOccurrences(all_nodes_best))
            /\ NonMemberLines(ExactAfter) = NonMemberLines(ExactBefore)
            /\ OutsideItem(proxy_groups_section, GROUP_NODE_SELECT(cfg))
                 = OutsideItem(ns_before, GROUP_NODE_SELECT(cfg))
            /\ changed_any <=> proxy_groups_section # ns_before
    /\ pc = "set_done" => (~changed_any /\ proxy_groups_section = ns_before)

\* a list with a repeated entry replaced three members in other scalar forms
C25_OneRunWitness ==
    /\ pc = "set_again"
    /\ MembersInOneRun(ExactBefore)
    /\ Len(MemberLines(ExactBefore)) = 3
    /\ Len(all_nodes_best) = 3
    /\ Len(FirstOccurrences(all_nodes_best)) = 2
    /\ changed_any

\* the second call has returned
C25_AgainWitness == pc = "set_done" /\ Len(all_nodes_best) >= 2

(***************************************************************************)
(* C26: removing a group                                                   *)
(***************************************************************************)
\* the lines of the section that belong neither to the user-facing group nor
\* to a group with one of the names
LinesOutside(section, names) ==
    LET lines == split_lines_keepends(section)
    IN  PickLines(lines,
                  (1..Len(lines))
                     \ (ItemIndexes(lines, UserGroupIn(split_lines_keepends(ns_before)))
                          \cup UNION {ItemIndexes(lines, n) : n \in names}), 1)

\* the node-select step of the full script found a legacy group and removed it
LegacyGroupRemoved ==
    /\ pc = "resi_splice"
    /\ variant = "full"
    /\ \E n \in LegacyNames : ItemsNamed(split_lines_keepends(ns_before), n) # {}
    /\ \A n \in LegacyNames : ItemsNamed(split_lines_keepends(proxy_groups_section), n) = {}

\* C26: block removal.  _remove_group_by_name deletes exactly the lines of the
\* first block with the given name and leaves every other line of the section
\* unchanged and in order; lines that do not belong to the removed group (a
\* comment or blank line that follows it) are not deleted; when no block has
\* the name the section is returned unchanged.
C26_OnlyTheGroupRemoved ==
    /\ LegacyGroupRemoved
         => LinesOutside(proxy_groups_section, {}) = LinesOutside(ns_before, LegacyNames)
    /\ (pc = "resi_splice" /\ variant = "full" /\ OnlyBareMarkers(ns_before)
          /\ \A n \in LegacyNames : ItemsNamed(split_lines_keepends(ns_before), n) = {})
         => LinesOutside(proxy_groups_section, {}) = LinesOutside(ns_before, {})

\* the removed groups are followed by a list item or by nothing
LegacyGroupsDelimited ==
    LET lines == split_lines_keepends(ns_before)
    IN  \A n \in LegacyNames : \A i \in ItemsNamed(lines, n) :
            ItemLast(lines, i) = Len(lines) \/ is_item_start(lines[ItemLast(lines, i) + 1], "  ")

\* C26, the part the code keeps: a removed group that is followed by another
\* list item, or by the end of the section, goes without any other line.
C26_DelimitedGroupRemoved ==
    /\ (LegacyGroupRemoved /\ LegacyGroupsDelimited)
         => LinesOutside(proxy_groups_section, {}) = LinesOutside(ns_before, LegacyNames)
    /\ (pc = "resi_splice" /\ variant = "full" /\ OnlyBareMarkers(ns_before)
          /\ \A n \in LegacyNames : ItemsNamed(split_lines_keepends(ns_before), n) = {})
         => LinesOutside(proxy_groups_section, {}) = LinesOutside(ns_before, {})

\* two legacy groups were removed from between other groups
C26_DelimitedWitness ==
    /\ LegacyGroupRemoved
    /\ LegacyGroupsDelimited
    /\ \A n \in LegacyNames : ItemsNamed(split_lines_keepends(ns_before), n) # {}
    /\ Len(LinesOutside(ns_before, LegacyNames)) > 1

(***************************************************************************)
(* C27: the dialer candidates and the fallbacks                            *)
(***************************************************************************)
\* the names _select_dialer_candidates was given, and those that are not the relay
NamesGiven == extract_proxy_names_from_proxies_section(proxies_section)
NotTheRelay(n) == n \notin {RESI_PROXY.name, RESI_PROXY_VIA_HK_NAME}
CandidatesGiven == SelectSeq(NamesGiven, NotTheRelay)

\* the mode and the pattern of the environment, and the candidates the pattern matches
DialerMode == IF Lower(Strip(cfg.dialer_mode)) = "" THEN "all" ELSE Lower(Strip(cfg.dialer_mode))
DialerPattern == Strip(cfg.dialer_regex)
PatternUsable == DialerPattern # "" /\ ~re_error(DialerPattern)
MatchesPattern(n) == re_search_ignorecase(DialerPattern, n)
MatchingCandidates == SelectSeq(CandidatesGiven, MatchesPattern)

\* the selection falls back to all candidates
DialerFallback ==
    \/ DialerMode \notin {"all", "regex"}
    \/ DialerMode = "regex" /\ (~PatternUsable \/ MatchingCandidates = <<>>)

\* the warnings of the report that come from the selection
IsDialerWarning(w) ==
    Contains(w, "falling back to all") \/ Contains(w, "no dialer candidates")
DialerWarnings == SelectSeq(warn_notes, IsDialerWarning)

\* the candidates have been selected
CandidatesSelected == variant = "full" /\ pc = "resi_groups"

\* C27: dialer-candidate selection fallbacks.  _select_dialer_candidates
\* returns a subsequence of the node names in document order without the
\* relay's own name; in mode all every candidate and no warning; in mode regex
\* the candidates that match the pattern, and all candidates with a warning
\* when the pattern is empty, malformed or matches nothing; for an unknown
\* mode all candidates with a warning.  Each fallback puts exactly one warning
\* into the report of the run.
C27_CandidatesAndFallbacks ==
    CandidatesSelected
        => /\ IsSubseq(all_nodes_best, NamesGiven)
           /\ ~InSeq(RESI_PROXY.name, all_nodes_best)
           /\ DialerMode = "all"
                => (all_nodes_best = CandidatesGiven /\ DialerWarnings = <<>>)
           /\ (DialerMode = "regex" /\ ~DialerFallback)
                => (all_nodes_best = MatchingCandidates /\ DialerWarnings = <<>>)
           /\ DialerFallback
                => (all_nodes_best = CandidatesGiven /\ Len(DialerWarnings) = 1)

\* C27, the part the code keeps: the candidates are as claimed; with at least
\* one candidate the report holds no warning of the selection in mode all and
\* for a pattern that matches, one warning for a malformed pattern, a pattern
\* that matches nothing and an unknown mode, and the same warning twice for an
\* empty pattern.
C27_CandidatesAsClaimed ==
    CandidatesSelected
        => /\ IsSubseq(all_nodes_best, NamesGiven)
           /\ ~InSeq(RESI_PROXY.name, all_nodes_best)
           /\ all_nodes_best = (IF DialerMode = "regex" /\ ~DialerFallback
                                THEN MatchingCandidates ELSE CandidatesGiven)
           /\ (CandidatesGiven # <<>> /\ ~DialerFallback) => DialerWarnings = <<>>
           /\ (CandidatesGiven # <<>> /\ DialerFallback)
                => DialerWarnings
                     = (IF DialerMode = "regex" /\ DialerPattern = ""
                        THEN <<WARN_REGEX_EMPTY, WARN_REGEX_EMPTY>>
                        ELSE <<select_dialer_candidates(NamesGiven, cfg).warn>>)

\* a pattern picked one of two candidates; a fallback returned both
C27_FilteredWitness ==
    /\ CandidatesSelected
    /\ DialerMode = "regex"
    /\ Len(all_nodes_best) = 1
    /\ Len(CandidatesGiven) = 2
C27_FallbackWitness ==
    /\ CandidatesSelected
    /\ DialerFallback
    /\ DialerPattern # ""
    /\ Len(all_nodes_best) = 2
    /\ Len(DialerWarnings) = 1

(***************************************************************************)
(* C28: the changed flag                                                   *)
(***************************************************************************)
\* C28: the changed flag tells the truth.  For every run of patch_file the
\* flag is true if and only if the text the run computed differs from the
\* text it read; whenever the run reports 'No changes needed' and writes
\* nothing, the computed text is byte-identical to the input, also when the
\* only difference comes from removing a legacy entry from the member list of
\* the user-facing group.
C28_ChangedFlagTruthful ==
    /\ pc = "report" => (changed_any <=> text # original)
    /\ (pc = "done" /\ outcome = "nochange") => (text = original /\ NothingWritten)

\* the node-select step found a legacy entry in the user-facing group
LegacyEntryFound ==
    /\ ns_before # ""
    /\ \E i \in 1..Len(UserGroupBefore) : IsLegacyEntry(UserGroupBefore[i])

\* C28, the part the code keeps: the flag is true exactly when the computed
\* text differs from the text read, unless the node-select step found a legacy
\* entry in the member list of the user-facing group; a run that reports 'No
\* changes needed' writes nothing.
C28_FlagTruthfulButLegacy ==
    /\ (pc = "report" /\ ~LegacyEntryFound) => (changed_any <=> text # original)
    /\ (pc = "done" /\ outcome = "nochange")
         => (NothingWritten /\ (~LegacyEntryFound => text = original))

\* a run changed the text and says so; a run left it alone and says so
C28_ChangedWitness ==
    pc = "report" /\ ~LegacyEntryFound /\ ns_before # "" /\ changed_any /\ text # original
C28_UnchangedWitness ==
    /\ pc = "done"
    /\ outcome = "nochange"
    /\ ResiRun
    /\ ns_before # ""
    /\ ~LegacyEntryFound
    /\ text = original

(***************************************************************************)
(* C29: one top-level port                                                 *)
(***************************************************************************)
IsPortLine(ln) == StartsWith(ln, "port: ")
NotPortLine(ln) == ~IsPortLine(ln)
PortLines(t) == SelectSeq(split_lines_keepends(t), IsPortLine)
OtherLines(t) == SelectSeq(split_lines_keepends(t), NotPortLine)

\* _ensure_toplevel_port has returned, and nothing else has touched the text
PortEnsured ==
    /\ pc \in {"resi_proxies", "san_proxies"}
    /\ FEATURE_BYPASS \notin cfg.features

\* C29: single top-level port.  After _ensure_toplevel_port the document has
\* exactly one top-level line that starts with 'port: ', it reads
\* 'port: <desired>', and all other lines are unchanged, wherever a
\* pre-existing port line stood relative to the dns: and proxies: headers.
C29_SinglePort ==
    PortEnsured
        => /\ PortLines(text) = <<"port: " \o ToString(TOPLEVEL_PORT) \o "\n">>
           /\ OtherLines(text) = OtherLines(original)

\* the port line of the document, if any, stands above the dns: and proxies: lines
PortAboveSections(t) ==
    \A i \in 1..Len(split_lines_keepends(t)) :
        IsPortLine(split_lines_keepends(t)[i])
          => \A j \in 1..i : /\ ~StartsWith(split_lines_keepends(t)[j], "dns:")
                             /\ ~StartsWith(split_lines_keepends(t)[j], "proxies:")

\* C29, the part the code keeps: the same for a document whose port line, if
\* it has one, stands above its dns: and proxies: lines.
C29_SinglePortAbove ==
    (PortEnsured /\ PortAboveSections(original))
        => /\ PortLines(text) = <<"port: " \o ToString(TOPLEVEL_PORT) \o "\n">>
           /\ OtherLines(text) = OtherLines(original)

\* a port line with another number was rewritten; a missing one was added
C29_RewrittenWitness ==
    /\ PortEnsured
    /\ PortAboveSections(original)
    /\ Len(PortLines(original)) = 1
    /\ text # original
C29_AddedWitness ==
    /\ PortEnsured
    /\ PortLines(original) = <<>>
    /\ text # original

(***************************************************************************)
(* C30: the members of the generated group are nodes of the document       *)
(***************************************************************************)
\* the names a member line or a node of the documents can carry
KnownNames ==
    {NodePool[i] : i \in 1..Len(NodePool)}
      \cup {US_NODES_FALLBACK[i] : i \in 1..Len(US_NODES_FALLBACK)}
      \cup {RESI_PROXY.name, "Gone", "Auto"}

\* the nodes the proxies section of the document t defines, in either layout
DefinedNodes(t) ==
    {n \in KnownNames :
        \/ InSeq("    name: '" \o n \o "'\n", ProxiesLinesOf(t))
        \/ InSeq(NodeFlow(n), ProxiesLinesOf(t))}

\* the member lines of the generated group in the document t
GeneratedMembers(t) == MemberLines(ItemLines(GroupsLinesOf(t), DialerGroup))

\* every member of the generated group of t is a node t defines, other than the relay
MembersDefined(t) ==
    \A i \in 1..Len(GeneratedMembers(t)) :
        \E n \in DefinedNodes(t) \ {RESI_PROXY.name} : GeneratedMembers(t)[i] = MemberLine(n)

RelayChainWritten == pc = "done" /\ ResiRun /\ outcome = "written"

\* C30: referential integrity of the generated group.  In every document a
\* relay-chain run produces, in either script, every member of the generated
\* dialer/relay group is the name of a node defined in the proxies section of
\* that document, and never the relay's own name.
C30_MembersAreNodes == RelayChainWritten => MembersDefined(file)

\* C30, the part the code keeps: the same when every list marker of the
\* proxy-groups section read is a dash alone on its line, for the full script,
\* and for the sanitized script on a document that defines a node matching
\* US_NODE_PATTERNS.
C30_MembersAreNodesUnlessFallback ==
    (RelayChainWritten
       /\ OnlyBareMarkers(Join(GroupsLinesOf(disk0.file)))
       /\ (variant = "sanitized"
             => resolve_us_nodes(extract_proxy_names_from_proxies_section(
                                     Join(ProxiesLinesOf(file)))) # US_NODES_FALLBACK))
        => MembersDefined(file)

\* a written document whose generated group has two members, in each script
C30_FullWitness ==
    /\ RelayChainWritten
    /\ variant = "full"
    /\ Len(GeneratedMembers(file)) >= 2
    /\ file # disk0.file
C30_SanitizedWitness ==
    /\ RelayChainWritten
    /\ variant = "sanitized"
    /\ Len(GeneratedMembers(file)) >= 2
    /\ MembersDefined(file)
    /\ file # disk0.file

(***************************************************************************)
(* C4: the member entries of the user-facing group                         *)
(***************************************************************************)
\* the lines of the first group of the section that declares the name, read
\* as YAML reads a list item (<<>> if no group declares it)
DeclaredGroup(lines, name) ==
    IF name = "" \/ GroupsDeclaring(lines, name) = {} THEN <<>>
    ELSE LET i == CHOOSE k \in GroupsDeclaring(lines, name) :
                      \A m \in GroupsDeclaring(lines, name) : k <= m
         IN  SubSeq(lines, i + 1, ItemLast(lines, i + 1))

\* the user-facing group as the node-select step found it and left it
DeclaredGroupBefore ==
    DeclaredGroup(split_lines_keepends(ns_before),
                  UserGroupDeclared(split_lines_keepends(ns_before)))
DeclaredGroupAfter ==
    DeclaredGroup(split_lines_keepends(proxy_groups_section),
                  UserGroupDeclared(split_lines_keepends(ns_before)))

\* C4 as claimed: non-destructive membership append.  The node-select step never
\* removes or reorders a member entry of the user-facing group: the member lines
\* it found are a subsequence of the member lines it leaves, and every other
\* line of the block is unchanged.
C4_NoMemberRemoved ==
    pc = "resi_splice"
        => /\ IsSubseq(MemberLines(DeclaredGroupBefore), MemberLines(DeclaredGroupAfter))
           /\ NonMemberLines(DeclaredGroupAfter) = NonMemberLines(DeclaredGroupBefore)

\* C4 with the words of the specification, "entries not managed by this
\* engine": the node-select step removes from the user-facing group at most the
\* entries that name the legacy groups (dialer selector, residential outlet);
\* the other member lines it found are a subsequence, in the same order, of
\* the member lines it leaves, and every other line of the block is unchanged.
\* This asks less than C4 as claimed.
C4_OnlyLegacyMembersRemoved ==
    pc = "resi_splice"
        => /\ IsSubseq(OwnMemberLines(DeclaredGroupBefore), MemberLines(DeclaredGroupAfter))
           /\ NonMemberLines(DeclaredGroupAfter) = NonMemberLines(DeclaredGroupBefore)

\* C4, the part the code keeps: the same when every list marker of the
\* proxy-groups section is a dash alone on its line.
C4_BareMarkerMembersKept ==
    (pc = "resi_splice" /\ OnlyBareMarkers(ns_before))
        => /\ IsSubseq(OwnMemberLines(DeclaredGroupBefore), MemberLines(DeclaredGroupAfter))
           /\ NonMemberLines(DeclaredGroupAfter) = NonMemberLines(DeclaredGroupBefore)

\* the step found members of its own and legacy entries, and added the entry
C4_Witness ==
    /\ pc = "resi_splice"
    /\ OnlyBareMarkers(ns_before)
    /\ Len(OwnMemberLines(DeclaredGroupBefore)) >= 2
    /\ \E i \in 1..Len(DeclaredGroupBefore) : IsLegacyEntry(DeclaredGroupBefore[i])
    /\ ~InSeq(MemberLine(WantedEntry), DeclaredGroupBefore)
    /\ InSeq(MemberLine(WantedEntry), DeclaredGroupAfter)

\* the step found the user-facing group, written with its first field on the
\* dash line, below a legacy group, and left the section without it
C4_GroupLostWitness ==
    /\ pc = "resi_splice"
    /\ ~OnlyBareMarkers(ns_before)
    /\ Len(MemberLines(DeclaredGroupBefore)) >= 2
    /\ DeclaredGroupAfter = <<>>

====
